---- MODULE Spec2Model ----
(***************************************************************************)
(* Rail tiles and train traversal of src/src/raylib_game.c.                *)
(*                                                                         *)
(* Scaling used by the model (the code's values are in the comments):      *)
(*   - the grid is g_MapGridSize x g_MapGridSize tiles, 64 in the code;    *)
(*     the seeded layout of GameplayResetState is translated by SeedShift  *)
(*     so that it lies inside the smaller grid, next to its borders;       *)
(*   - g_MaxTrains is 64 in the code; only train 0 is ever enabled;        *)
(*   - pathProgressNormalized is a float; here it is counted in units of   *)
(*     1/ProgressUnit, and the frame time in units of 2/ProgressUnit s,    *)
(*     so that speedDrive (0.5f, stored as 1: speeds are in halves) times  *)
(*     the frame time is a whole number of progress units;                 *)
(*   - world positions are integers in units of 1/PosScale tile (and the   *)
(*     Bezier result in units of 1/(PosScale * ProgressUnit^3)), which is  *)
(*     exact for every value the code computes up to float rounding;       *)
(*   - the angle atan2f(dx, dz) is represented by the direction (dx, dz)   *)
(*     reduced by its gcd, which determines the angle and conversely.      *)
(*                                                                         *)
(* Specifications:                                                         *)
(*   Spec       frames from reset: tick, paint or bulldoze, toolbar, pause *)
(*   SpecTick   ticks on the seeded map after a paused editing session     *)
(*   SpecTiles  the editing operations, one call a step                    *)
(*   SpecPure   the functions that read no state, on bounded inputs        *)
(*   SpecPaint  paint gestures over two tiles, frame by frame              *)
(*   SpecBake   one bake of a trail on an edited tile                      *)
(*   SpecStroke one long paint gesture, up to the end of the trail array   *)
(*   SpecLoop   the seeded loop, untouched and unpaused                    *)
(*   SpecResume ticks after an editing session held while a train waits    *)
(*   SpecLoopFair the seeded loop when frames keep coming                  *)
(***************************************************************************)
EXTENDS Integers, Sequences, FiniteSets, TLC

\* ---------------------------------------------------------------- bounds
g_MapGridSize == 7
g_MaxTrains == 2
MaxFrameSteps == 2
MaxProgress == 20
MaxTrail == 3
MaxOffGrid == 0
MaxTravel == 100
MaxBakes == 1
MaxResumeTicks == 3

\* pathProgressNormalized 1.0f, in progress units.
ProgressUnit == 2 * 5

\* -------------------------------------------------------- enum constants
TRAIN_STATE_DISABLED == 0
TRAIN_STATE_HIDDEN == 1
TRAIN_STATE_BLOCKED == 2
TRAIN_STATE_DRIVING == 3
TRAIN_STATE_UNLOAD == 4
TRAIN_STATE_LOAD == 5
TRAIN_STATE_DERAILED == 6

TILE_TYPE_EMPTY == 0
TILE_TYPE_RAILS == 1
TILE_TYPE_TODO == 2

MODEL_RAILS_STRAIGHT == 0
MODEL_RAILS_CURVE == 1
MODEL_RAILS_MERGE == 2
MODEL_RAILS_MERGE_MIRROR == 3
MODEL_RAILS_CROSS == 4
MODEL_FACTORY_A == 5
MODEL_TRAIN_LOCOMOTIVE_A == 6

ACTION_MODE_PAN_VIEW == 0
ACTION_MODE_BUILD_RAILS == 1
ACTION_MODE_CHANGE_SIGNALS == 2
ACTION_MODE_BUILD_BULLDOZER == 3

CONNECTION_NS_SN == 1
CONNECTION_NE_EN == 2
CONNECTION_NW_WN == 4
CONNECTION_ES_SE == 8
CONNECTION_EW_WE == 16
CONNECTION_SW_WS == 32

TILE_SECTOR_SE == 1
TILE_SECTOR_S == 2
TILE_SECTOR_SW == 4
TILE_SECTOR_E == 8
TILE_SECTOR_CENTER == 16
TILE_SECTOR_W == 32
TILE_SECTOR_NW == 64
TILE_SECTOR_N == 128
TILE_SECTOR_NE == 256

ConnectionDirections ==
    { CONNECTION_NS_SN, CONNECTION_NE_EN, CONNECTION_NW_WN,
      CONNECTION_ES_SE, CONNECTION_EW_WE, CONNECTION_SW_WS }

TileSectors ==
    { TILE_SECTOR_SE, TILE_SECTOR_S, TILE_SECTOR_SW, TILE_SECTOR_E, TILE_SECTOR_CENTER,
      TILE_SECTOR_W, TILE_SECTOR_NW, TILE_SECTOR_N, TILE_SECTOR_NE }

EdgeSectors == { TILE_SECTOR_N, TILE_SECTOR_S, TILE_SECTOR_E, TILE_SECTOR_W }

g_TileCount == g_MapGridSize * g_MapGridSize

\* ConnectionsConfig is a uint8_t.
ConnectionsConfig == 0..255

\* --------------------------------------------------- bit operations (uint8)
RECURSIVE BitAnd(_, _)
BitAnd(a, b) ==
    IF a = 0 \/ b = 0 THEN 0
    ELSE (a % 2) * (b % 2) + 2 * BitAnd(a \div 2, b \div 2)

BitOr(a, b) == a + b - BitAnd(a, b)

\* A flag operation that adds nothing.
TileAddConnectionFlagDropped(target, additionalFlag) == target

\* *target |= additionalFlag
TileAddConnectionFlag(target, additionalFlag) == BitOr(target, additionalFlag) % 256

\* A flag test that finds every flag.
TileHasConnectionFlagAlways(flags, flag) == TRUE

\* (flags & flag) != 0
TileHasConnectionFlag(flags, flag) == BitAnd(flags, flag) # 0

\* A count that takes any set of connections for one.
TileHConnectionsCountAtMostOne(flags) == IF flags = 0 THEN 0 ELSE 1

\* while (flags) { flags &= (flags - 1); count++; }
RECURSIVE TileHConnectionsCount(_)
TileHConnectionsCount(flags) ==
    IF flags = 0 THEN 0
    ELSE 1 + TileHConnectionsCount(BitAnd(flags, flags - 1))

\* ------------------------------------------------------------ tile coords
Coords(x, z) == [x |-> x, z |-> z]

GridRange == 0..(g_MapGridSize - 1)

GridCoords == [x : GridRange, z : GridRange]

InGrid(c) == c.x \in GridRange /\ c.z \in GridRange

\* return y * g_MapGridSize + x
TileIndexByTileCoords(x, y) == y * g_MapGridSize + x

TileCoordsByIndex(arrayIndex) ==
    Coords(arrayIndex % g_MapGridSize, arrayIndex \div g_MapGridSize)

TileCoordsAreEqual(a, b) == (a.x = b.x) /\ (a.z = b.z)

\* ------------------------------------------------------- sector geometry
\* An exit sector that is the entry sector itself.
TileSectorGetExitSameAsEntry(connection, entry) == entry

TileSectorGetExitFromEntryAndConnectionDirection(connection, entry) ==
    IF connection = CONNECTION_NS_SN
    THEN (IF entry = TILE_SECTOR_N THEN TILE_SECTOR_S ELSE TILE_SECTOR_N)
    ELSE IF connection = CONNECTION_NE_EN
    THEN (IF entry = TILE_SECTOR_N THEN TILE_SECTOR_E ELSE TILE_SECTOR_N)
    ELSE IF connection = CONNECTION_NW_WN
    THEN (IF entry = TILE_SECTOR_N THEN TILE_SECTOR_W ELSE TILE_SECTOR_N)
    ELSE IF connection = CONNECTION_SW_WS
    THEN (IF entry = TILE_SECTOR_S THEN TILE_SECTOR_W ELSE TILE_SECTOR_S)
    ELSE IF connection = CONNECTION_ES_SE
    THEN (IF entry = TILE_SECTOR_S THEN TILE_SECTOR_E ELSE TILE_SECTOR_S)
    ELSE IF connection = CONNECTION_EW_WE
    THEN (IF entry = TILE_SECTOR_E THEN TILE_SECTOR_W ELSE TILE_SECTOR_E)
    ELSE TILE_SECTOR_S

\* An entry sector that is the exit sector itself, not the one facing it.
TileSectorGetNextEntrySameSide(exitSector) ==
    IF exitSector \in {TILE_SECTOR_S, TILE_SECTOR_E, TILE_SECTOR_W, TILE_SECTOR_N}
    THEN exitSector
    ELSE TILE_SECTOR_CENTER

TileSectorGetNextEntryByExit(exitSector) ==
    CASE exitSector = TILE_SECTOR_S -> TILE_SECTOR_N
      [] exitSector = TILE_SECTOR_E -> TILE_SECTOR_W
      [] exitSector = TILE_SECTOR_W -> TILE_SECTOR_E
      [] exitSector = TILE_SECTOR_N -> TILE_SECTOR_S
      [] OTHER -> TILE_SECTOR_CENTER

\* A neighbor step of two tiles to the North.
TileGetNextSkippingNorth(tileCoords, exitSector) ==
    CASE exitSector = TILE_SECTOR_S ->
            [tileCoords EXCEPT !.z = @ - (IF tileCoords.z > 0 THEN 1 ELSE 0)]
      [] exitSector = TILE_SECTOR_E ->
            [tileCoords EXCEPT !.x = @ - (IF tileCoords.z > 0 THEN 1 ELSE 0)]
      [] exitSector = TILE_SECTOR_W ->
            [tileCoords EXCEPT !.x = @ + (IF tileCoords.z < g_MapGridSize THEN 1 ELSE 0)]
      [] exitSector = TILE_SECTOR_N ->
            [tileCoords EXCEPT !.z = @ + (IF tileCoords.z < g_MapGridSize - 1 THEN 2 ELSE 0)]
      [] OTHER -> tileCoords

\* A neighbor step of two tiles to the South.
TileGetNextSkippingSouth(tileCoords, exitSector) ==
    CASE exitSector = TILE_SECTOR_S -> [tileCoords EXCEPT !.z = @ - 2]
      [] exitSector = TILE_SECTOR_E ->
            [tileCoords EXCEPT !.x = @ - (IF tileCoords.z > 0 THEN 1 ELSE 0)]
      [] exitSector = TILE_SECTOR_W ->
            [tileCoords EXCEPT !.x = @ + (IF tileCoords.z < g_MapGridSize THEN 1 ELSE 0)]
      [] exitSector = TILE_SECTOR_N ->
            [tileCoords EXCEPT !.z = @ + (IF tileCoords.z < g_MapGridSize THEN 1 ELSE 0)]
      [] OTHER -> tileCoords

\* The East and West cases test newCoords.z, as the code does, and the upper
\* tests compare with g_MapGridSize, not g_MapGridSize - 1.
TileGetNextFromExitSector(tileCoords, exitSector) ==
    CASE exitSector = TILE_SECTOR_S ->
            [tileCoords EXCEPT !.z = @ - (IF tileCoords.z > 0 THEN 1 ELSE 0)]
      [] exitSector = TILE_SECTOR_E ->
            [tileCoords EXCEPT !.x = @ - (IF tileCoords.z > 0 THEN 1 ELSE 0)]
      [] exitSector = TILE_SECTOR_W ->
            [tileCoords EXCEPT !.x = @ + (IF tileCoords.z < g_MapGridSize THEN 1 ELSE 0)]
      [] exitSector = TILE_SECTOR_N ->
            [tileCoords EXCEPT !.z = @ + (IF tileCoords.z < g_MapGridSize THEN 1 ELSE 0)]
      [] OTHER -> tileCoords

\* An entry test that accepts any connection of the tile.
TileInfoHasAnyConnection(tile, entrySector) == tile.connectionOptions # 0

\* TileHasConnectionForEntry, on the TileInfo it reads.
TileInfoHasConnectionForEntry(tile, entrySector) ==
    CASE entrySector = TILE_SECTOR_S ->
            \/ TileHasConnectionFlag(tile.connectionOptions, CONNECTION_SW_WS)
            \/ TileHasConnectionFlag(tile.connectionOptions, CONNECTION_NS_SN)
            \/ TileHasConnectionFlag(tile.connectionOptions, CONNECTION_ES_SE)
      [] entrySector = TILE_SECTOR_E ->
            \/ TileHasConnectionFlag(tile.connectionOptions, CONNECTION_ES_SE)
            \/ TileHasConnectionFlag(tile.connectionOptions, CONNECTION_EW_WE)
            \/ TileHasConnectionFlag(tile.connectionOptions, CONNECTION_NE_EN)
      [] entrySector = TILE_SECTOR_W ->
            \/ TileHasConnectionFlag(tile.connectionOptions, CONNECTION_EW_WE)
            \/ TileHasConnectionFlag(tile.connectionOptions, CONNECTION_SW_WS)
            \/ TileHasConnectionFlag(tile.connectionOptions, CONNECTION_NW_WN)
      [] entrySector = TILE_SECTOR_N ->
            \/ TileHasConnectionFlag(tile.connectionOptions, CONNECTION_NS_SN)
            \/ TileHasConnectionFlag(tile.connectionOptions, CONNECTION_NW_WN)
            \/ TileHasConnectionFlag(tile.connectionOptions, CONNECTION_NE_EN)
      [] OTHER -> FALSE

\* -------------------------------------------------------- world positions
\* Vector3 values are <<x, y, z>> in units of 1/PosScale: a third of a tile is
\* 200, half a sector 100, and the 0.01f of a tile centre's y is 6.
PosScale == 6 * 100

Vector3Zero == <<0, 0, 0>>

\* (int) of a float coordinate: the conversion truncates towards zero.
IntOfFloat(coordinate) ==
    IF coordinate >= 0 THEN coordinate \div PosScale
    ELSE -((-coordinate) \div PosScale)

\* A conversion of a world point to tile coords that checks no bounds.
TileGetCoordsFromWorldPointUnchecked(position) ==
    Coords(IntOfFloat(position[1]), IntOfFloat(position[3]))

TileGetCoordsFromWorldPoint(position) ==
    LET x == IntOfFloat(position[1])
        z == IntOfFloat(position[3])
    IN Coords(IF x < 0 THEN 0 ELSE IF x >= g_MapGridSize THEN g_MapGridSize - 1 ELSE x,
              IF z < 0 THEN 0 ELSE IF z >= g_MapGridSize THEN g_MapGridSize - 1 ELSE z)

TileGetCenterPosition(tileCoords) ==
    << tileCoords.x * PosScale + 300, 6, tileCoords.z * PosScale + 300 >>

\* offset * 0.5f, offset * 1.5f and offset * 2.5f are 100, 300 and 500.
TileSectorGetCenterPosition(tileCoords, sector) ==
    LET bx == tileCoords.x * PosScale
        bz == tileCoords.z * PosScale
    IN CASE sector = TILE_SECTOR_SE     -> << bx + 100, 0, bz + 100 >>
         [] sector = TILE_SECTOR_E      -> << bx + 100, 0, bz + 300 >>
         [] sector = TILE_SECTOR_NE     -> << bx + 100, 0, bz + 500 >>
         [] sector = TILE_SECTOR_S      -> << bx + 300, 0, bz + 100 >>
         [] sector = TILE_SECTOR_CENTER -> << bx + 300, 0, bz + 300 >>
         [] sector = TILE_SECTOR_N      -> << bx + 300, 0, bz + 500 >>
         [] sector = TILE_SECTOR_SW     -> << bx + 500, 0, bz + 100 >>
         [] sector = TILE_SECTOR_W      -> << bx + 500, 0, bz + 300 >>
         [] sector = TILE_SECTOR_NW     -> << bx + 500, 0, bz + 500 >>
         [] OTHER -> Vector3Zero

TileSectorGetEdgePosition(tileCoords, sector) ==
    LET worldPosition == TileSectorGetCenterPosition(tileCoords, sector)
    IN CASE sector = TILE_SECTOR_N -> [worldPosition EXCEPT ![3] = @ + 100]
         [] sector = TILE_SECTOR_S -> [worldPosition EXCEPT ![3] = @ - 100]
         [] sector = TILE_SECTOR_W -> [worldPosition EXCEPT ![1] = @ + 100]
         [] sector = TILE_SECTOR_E -> [worldPosition EXCEPT ![1] = @ - 100]
         [] OTHER -> Vector3Zero

\* t is in progress units and is clamped to [0, 1.0]; the result is in units
\* of 1/(PosScale * ProgressUnit^3).
Bezier3D(start, middle, end, t) ==
    LET tc == IF t < 0 THEN 0 ELSE IF t > ProgressUnit THEN ProgressUnit ELSE t
        u == ProgressUnit - tc
        tangentStart == [i \in 1..3 |-> (start[i] + middle[i]) \div 2]
        tangentEnd == [i \in 1..3 |-> (end[i] + middle[i]) \div 2]
    IN [i \in 1..3 |->
            start[i] * u * u * u + tangentStart[i] * 3 * u * u * tc
          + tangentEnd[i] * 3 * u * tc * tc + end[i] * tc * tc * tc]

Abs(n) == IF n < 0 THEN -n ELSE n

RECURSIVE Gcd(_, _)
Gcd(a, b) == IF b = 0 THEN a ELSE Gcd(b, a % b)

\* atan2f(direction.x, direction.z) in [0, 360), as the direction it is the
\* angle of; atan2f(0, 0) is 0, the angle of <<0, 1>>.
CalculateLookAtAngle(from, to) ==
    LET dx == to[1] - from[1]
        dz == to[3] - from[3]
        g == Gcd(Abs(dx), Abs(dz))
    IN IF g = 0 THEN <<0, 1>> ELSE << dx \div g, dz \div g >>

\* The float 0 that modelRotationInDegree is reset to.
AngleZero == <<0, 1>>

\* progress + 0.1f
LookAhead == ProgressUnit \div 10

\* ------------------------------------------------------------------ tiles
TileInfo ==
    [type : {TILE_TYPE_EMPTY, TILE_TYPE_RAILS, TILE_TYPE_TODO}, modelID : 0..6,
     connectionOptions : ConnectionsConfig, connectionsActive : ConnectionsConfig,
     modelRotationInDegree : {0, 90, 180, 270}]

\* g_game is static storage: every field not assigned by the reset is zero.
TileZero ==
    [type |-> TILE_TYPE_EMPTY, modelID |-> MODEL_RAILS_STRAIGHT, connectionOptions |-> 0,
     connectionsActive |-> 0, modelRotationInDegree |-> 0]

TileAddRailConnection(tiles, x, y, connection) ==
    LET index == TileIndexByTileCoords(x, y)
        count == TileHConnectionsCount(tiles[index].connectionOptions)
        active0 == IF count = 0 THEN connection ELSE tiles[index].connectionsActive
        options1 == TileAddConnectionFlag(tiles[index].connectionOptions, connection)
        isCrossingRails ==
            /\ TileHasConnectionFlag(options1, CONNECTION_NS_SN)
            /\ TileHasConnectionFlag(options1, CONNECTION_EW_WE)
        active1 == IF count = 1 /\ isCrossingRails
                   THEN TileAddConnectionFlag(active0, connection)
                   ELSE active0
    IN [tiles EXCEPT ![index] =
            [@ EXCEPT !.type = TILE_TYPE_RAILS,
                      !.connectionOptions = options1,
                      !.connectionsActive = active1]]

\* The model and rotation a tile with one connection gets; the NS/SN branch sets
\* no rotation.
RailsModelOne(tile) ==
    LET has(c) == TileHasConnectionFlag(tile.connectionOptions, c)
    IN IF has(CONNECTION_NS_SN)
       THEN [tile EXCEPT !.modelID = MODEL_RAILS_STRAIGHT]
       ELSE IF has(CONNECTION_EW_WE)
       THEN [tile EXCEPT !.modelID = MODEL_RAILS_STRAIGHT, !.modelRotationInDegree = 90]
       ELSE IF has(CONNECTION_ES_SE)
       THEN [tile EXCEPT !.modelID = MODEL_RAILS_CURVE, !.modelRotationInDegree = 0]
       ELSE IF has(CONNECTION_NE_EN)
       THEN [tile EXCEPT !.modelID = MODEL_RAILS_CURVE, !.modelRotationInDegree = 90]
       ELSE IF has(CONNECTION_NW_WN)
       THEN [tile EXCEPT !.modelID = MODEL_RAILS_CURVE, !.modelRotationInDegree = 180]
       ELSE IF has(CONNECTION_SW_WS)
       THEN [tile EXCEPT !.modelID = MODEL_RAILS_CURVE, !.modelRotationInDegree = 270]
       ELSE tile

\* The model and rotation a tile with two connections gets; the first three
\* branches set no rotation, and pairs of two curves match no branch.
RailsModelTwo(tile) ==
    LET has(c) == TileHasConnectionFlag(tile.connectionOptions, c)
    IN IF has(CONNECTION_NS_SN) /\ has(CONNECTION_EW_WE)
       THEN [tile EXCEPT !.modelID = MODEL_RAILS_CROSS]
       ELSE IF has(CONNECTION_NS_SN) /\ has(CONNECTION_ES_SE)
       THEN [tile EXCEPT !.modelID = MODEL_RAILS_MERGE]
       ELSE IF has(CONNECTION_NS_SN) /\ has(CONNECTION_NE_EN)
       THEN [tile EXCEPT !.modelID = MODEL_RAILS_MERGE_MIRROR]
       ELSE IF has(CONNECTION_NS_SN) /\ has(CONNECTION_NW_WN)
       THEN [tile EXCEPT !.modelID = MODEL_RAILS_MERGE, !.modelRotationInDegree = 180]
       ELSE IF has(CONNECTION_NS_SN) /\ has(CONNECTION_SW_WS)
       THEN [tile EXCEPT !.modelID = MODEL_RAILS_MERGE_MIRROR, !.modelRotationInDegree = 180]
       ELSE IF has(CONNECTION_EW_WE) /\ has(CONNECTION_SW_WS)
       THEN [tile EXCEPT !.modelID = MODEL_RAILS_MERGE, !.modelRotationInDegree = 270]
       ELSE IF has(CONNECTION_EW_WE) /\ has(CONNECTION_NW_WN)
       THEN [tile EXCEPT !.modelID = MODEL_RAILS_MERGE_MIRROR, !.modelRotationInDegree = 90]
       ELSE IF has(CONNECTION_EW_WE) /\ has(CONNECTION_NE_EN)
       THEN [tile EXCEPT !.modelID = MODEL_RAILS_MERGE, !.modelRotationInDegree = 90]
       ELSE IF has(CONNECTION_EW_WE) /\ has(CONNECTION_ES_SE)
       THEN [tile EXCEPT !.modelID = MODEL_RAILS_MERGE_MIRROR, !.modelRotationInDegree = 270]
       ELSE tile

TileUpdateRailsModel(tiles, x, z) ==
    LET tileIndex == TileIndexByTileCoords(x, z)
        tile == tiles[tileIndex]
        connectionCount == TileHConnectionsCount(tile.connectionOptions)
    IN [tiles EXCEPT ![tileIndex] =
            IF connectionCount = 1
            THEN RailsModelOne([tile EXCEPT !.type = TILE_TYPE_RAILS])
            ELSE IF connectionCount = 2
            THEN RailsModelTwo([tile EXCEPT !.type = TILE_TYPE_RAILS])
            ELSE tile]

TileAddConnectionAndUpdateRailsModel(tiles, x, z, direction) ==
    TileUpdateRailsModel(TileAddRailConnection(tiles, x, z, direction), x, z)

\* ------------------------------------------------------------ brush trail
TrailSample(coords, sector) == [coords |-> coords, sector |-> sector]

\* A selection that takes each pair of edge sectors in one order only.
SectorTrailConnectionOneWay(first, last) ==
    IF first = TILE_SECTOR_N /\ last = TILE_SECTOR_S THEN CONNECTION_NS_SN
    ELSE IF first = TILE_SECTOR_W /\ last = TILE_SECTOR_E THEN CONNECTION_EW_WE
    ELSE IF first = TILE_SECTOR_S /\ last = TILE_SECTOR_E THEN CONNECTION_ES_SE
    ELSE IF first = TILE_SECTOR_S /\ last = TILE_SECTOR_W THEN CONNECTION_SW_WS
    ELSE IF first = TILE_SECTOR_N /\ last = TILE_SECTOR_W THEN CONNECTION_NW_WN
    ELSE IF first = TILE_SECTOR_N /\ last = TILE_SECTOR_E THEN CONNECTION_NE_EN
    ELSE 0

\* A selection that takes the pairs of edge sectors in both orders, and the
\* pairs of corner sectors of the West and the East side in both orders too.
SectorTrailConnectionMirroringCorners(first, last) ==
    IF {first, last} \in { {TILE_SECTOR_N, TILE_SECTOR_S},
                           {TILE_SECTOR_SW, TILE_SECTOR_NW},
                           {TILE_SECTOR_NE, TILE_SECTOR_SE} }
    THEN CONNECTION_NS_SN
    ELSE IF {first, last} \in { {TILE_SECTOR_W, TILE_SECTOR_E},
                                {TILE_SECTOR_SE, TILE_SECTOR_SW},
                                {TILE_SECTOR_NE, TILE_SECTOR_NW} }
    THEN CONNECTION_EW_WE
    ELSE IF {first, last} = {TILE_SECTOR_S, TILE_SECTOR_E} THEN CONNECTION_ES_SE
    ELSE IF {first, last} = {TILE_SECTOR_S, TILE_SECTOR_W} THEN CONNECTION_SW_WS
    ELSE IF {first, last} = {TILE_SECTOR_N, TILE_SECTOR_W} THEN CONNECTION_NW_WN
    ELSE IF {first, last} = {TILE_SECTOR_N, TILE_SECTOR_E} THEN CONNECTION_NE_EN
    ELSE 0

\* The connection the (first, last) pair of a three-sample trail selects, 0 when
\* it matches no branch.
SectorTrailConnection(first, last) ==
    IF \/ (first = TILE_SECTOR_N /\ last = TILE_SECTOR_S)
       \/ (first = TILE_SECTOR_S /\ last = TILE_SECTOR_N)
       \/ (first = TILE_SECTOR_SW /\ last = TILE_SECTOR_NW)
       \/ (first = TILE_SECTOR_NE /\ last = TILE_SECTOR_SE)
    THEN CONNECTION_NS_SN
    ELSE IF \/ (first = TILE_SECTOR_W /\ last = TILE_SECTOR_E)
            \/ (first = TILE_SECTOR_E /\ last = TILE_SECTOR_W)
            \/ (first = TILE_SECTOR_SE /\ last = TILE_SECTOR_SW)
            \/ (first = TILE_SECTOR_NE /\ last = TILE_SECTOR_NW)
    THEN CONNECTION_EW_WE
    ELSE IF \/ (first = TILE_SECTOR_S /\ last = TILE_SECTOR_E)
            \/ (first = TILE_SECTOR_E /\ last = TILE_SECTOR_S)
    THEN CONNECTION_ES_SE
    ELSE IF \/ (first = TILE_SECTOR_S /\ last = TILE_SECTOR_W)
            \/ (first = TILE_SECTOR_W /\ last = TILE_SECTOR_S)
    THEN CONNECTION_SW_WS
    ELSE IF \/ (first = TILE_SECTOR_N /\ last = TILE_SECTOR_W)
            \/ (first = TILE_SECTOR_W /\ last = TILE_SECTOR_N)
    THEN CONNECTION_NW_WN
    ELSE IF \/ (first = TILE_SECTOR_N /\ last = TILE_SECTOR_E)
            \/ (first = TILE_SECTOR_E /\ last = TILE_SECTOR_N)
    THEN CONNECTION_NE_EN
    ELSE 0

\* A bake that matches the first and the last sample of any trail of two
\* samples or more.
SectorTrailBakeConnectionAnyLength(tiles, trail) ==
    IF Len(trail) < 2 THEN tiles
    ELSE LET tileCoord == trail[1].coords
             connection == SectorTrailConnection(trail[1].sector, trail[Len(trail)].sector)
         IN TileUpdateRailsModel(
                IF connection # 0
                THEN TileAddRailConnection(tiles, tileCoord.x, tileCoord.z, connection)
                ELSE tiles,
                tileCoord.x, tileCoord.z)

\* brushSectorTrail[0 .. brushSectorTrailLength - 1] is the sequence trail.
SectorTrailBakeConnection(tiles, trail) ==
    IF Len(trail) < 2 THEN tiles
    ELSE LET tileCoord == trail[1].coords
             connection == SectorTrailConnection(trail[1].sector, trail[Len(trail)].sector)
             baked == IF Len(trail) = 3 /\ connection # 0
                      THEN TileAddRailConnection(tiles, tileCoord.x, tileCoord.z, connection)
                      ELSE tiles
         IN TileUpdateRailsModel(baked, tileCoord.x, tileCoord.z)

\* A paint step that also records a sample equal to the last one.
SectorTrailPaintAtWithRepeats(tiles, trail, coords, sector) ==
    IF Len(trail) > 0 /\ ~TileCoordsAreEqual(trail[Len(trail)].coords, coords)
    THEN [tiles |-> SectorTrailBakeConnection(tiles, trail),
          trail |-> << TrailSample(coords, sector) >>]
    ELSE [tiles |-> tiles, trail |-> Append(trail, TrailSample(coords, sector))]

\* A paint step that bakes the trail on the tile under the cursor.
SectorTrailPaintAtBakingCursorTile(tiles, trail, coords, sector) ==
    IF Len(trail) > 0 /\ TileCoordsAreEqual(trail[Len(trail)].coords, coords)
    THEN [tiles |-> tiles,
          trail |-> IF trail[Len(trail)].sector = sector THEN trail
                    ELSE Append(trail, TrailSample(coords, sector))]
    ELSE [tiles |-> SectorTrailBakeConnection(
                       tiles, [i \in DOMAIN trail |-> TrailSample(coords, trail[i].sector)]),
          trail |-> << TrailSample(coords, sector) >>]

\* The tiles and the trail after SectorTrailPaintAt(coords, sector).
SectorTrailPaintAt(tiles, trail, coords, sector) ==
    LET previous == trail[Len(trail)]
        sample == TrailSample(coords, sector)
    IN IF Len(trail) > 0 /\ TileCoordsAreEqual(previous.coords, coords)
       THEN IF previous.sector = sector
            THEN [tiles |-> tiles, trail |-> trail]
            ELSE [tiles |-> tiles, trail |-> Append(trail, sample)]
       ELSE IF Len(trail) > 0
       THEN [tiles |-> SectorTrailBakeConnection(tiles, trail), trail |-> <<sample>>]
       ELSE [tiles |-> tiles, trail |-> <<sample>>]

\* TickPaintRails: hit is rayCollision.hit, down is IsMouseButtonDown(LEFT) or
\* IsKeyDown(SPACE), released is IsMouseButtonReleased(LEFT) or
\* IsKeyReleased(SPACE); the two devices make every combination possible.
TickPaintRails(tiles, trail, hit, coords, sector, down, released) ==
    IF ~hit THEN [tiles |-> tiles, trail |-> trail]
    ELSE LET painted == IF down THEN SectorTrailPaintAt(tiles, trail, coords, sector)
                        ELSE [tiles |-> tiles, trail |-> trail]
         IN IF released
            THEN [tiles |-> IF Len(painted.trail) > 0
                            THEN SectorTrailBakeConnection(painted.tiles, painted.trail)
                            ELSE painted.tiles,
                  trail |-> <<>>]
            ELSE painted

\* --------------------------------------------------------------- bulldozer
\* any train on that tile?
BulldozerVeto(trainSet, tileCoords) ==
    \E trainIndex \in DOMAIN trainSet :
        /\ trainSet[trainIndex].state = TRAIN_STATE_DRIVING
        /\ tileCoords.x # trainSet[trainIndex].tileCurrent.x
        /\ tileCoords.z = trainSet[trainIndex].tileCurrent.z

\* A bulldozer that clears the options of a tile and leaves its active
\* connections.
TickBulldozerKeepingActive(tiles, trainSet, hit, tileCoords, pressed) ==
    LET tileIndex == TileIndexByTileCoords(tileCoords.x, tileCoords.z)
    IN IF hit /\ tiles[tileIndex].type = TILE_TYPE_RAILS /\ pressed
          /\ ~BulldozerVeto(trainSet, tileCoords)
       THEN [tiles EXCEPT ![tileIndex] =
                [@ EXCEPT !.type = TILE_TYPE_EMPTY, !.connectionOptions = 0,
                          !.modelRotationInDegree = 0]]
       ELSE tiles

\* A bulldozer that clears the connections of a tile and leaves its type.
TickBulldozerKeepingType(tiles, trainSet, hit, tileCoords, pressed) ==
    LET tileIndex == TileIndexByTileCoords(tileCoords.x, tileCoords.z)
    IN IF hit /\ tiles[tileIndex].type = TILE_TYPE_RAILS /\ pressed
          /\ ~BulldozerVeto(trainSet, tileCoords)
       THEN [tiles EXCEPT ![tileIndex] =
                [@ EXCEPT !.connectionOptions = 0, !.connectionsActive = 0,
                          !.modelRotationInDegree = 0]]
       ELSE tiles

\* A bulldozer that leaves the rotation of the tile it clears.
TickBulldozerKeepingRotation(tiles, trainSet, hit, tileCoords, pressed) ==
    LET tileIndex == TileIndexByTileCoords(tileCoords.x, tileCoords.z)
    IN IF hit /\ tiles[tileIndex].type = TILE_TYPE_RAILS /\ pressed
          /\ ~BulldozerVeto(trainSet, tileCoords)
       THEN [tiles EXCEPT ![tileIndex] =
                [@ EXCEPT !.type = TILE_TYPE_EMPTY, !.connectionOptions = 0,
                          !.connectionsActive = 0]]
       ELSE tiles

\* TickBulldozer: pressed is IsMouseButtonPressed(LEFT) or IsKeyPressed(SPACE).
TickBulldozer(tiles, trainSet, hit, tileCoords, pressed) ==
    LET tileIndex == TileIndexByTileCoords(tileCoords.x, tileCoords.z)
    IN IF hit /\ tiles[tileIndex].type = TILE_TYPE_RAILS /\ pressed
          /\ ~BulldozerVeto(trainSet, tileCoords)
       THEN [tiles EXCEPT ![tileIndex] =
                [@ EXCEPT !.type = TILE_TYPE_EMPTY, !.connectionOptions = 0,
                          !.connectionsActive = 0, !.modelRotationInDegree = 0]]
       ELSE tiles

\* ------------------------------------------------------------------ trains
\* What g_game.mapTiles[tileIndex] yields: the tile inside the array; outside it
\* the read is undefined, and yields oob, any TileInfo.
MapTileRead(tiles, tileIndex, oob) ==
    IF tileIndex \in DOMAIN tiles THEN tiles[tileIndex] ELSE oob

\* Every way a read outside mapTiles can come out for TickTrains, which looks at
\* the type, at the option bits through TileHasConnectionForEntry, and at
\* connectionsActive through its count and as the connection used. The indices
\* TickTrains can compute past the array are those of one more row, and in
\* g_game the bytes there are the first samples of brushSectorTrail: each
\* 8-byte TileInfo lies over two int-sized words, each a tile coordinate or a
\* TileSector, all below 65536. With the low byte first the type is the low
\* byte of such a word and both connection bytes are 0; with the high byte
\* first the type is 0 and the connection bytes are the word's two low bytes.
OutOfArrayTiles ==
    [type : {TILE_TYPE_EMPTY, TILE_TYPE_RAILS, TILE_TYPE_TODO}, modelID : {0},
     connectionOptions : {0}, connectionsActive : {0},
     modelRotationInDegree : {0}]
    \cup [type : {TILE_TYPE_EMPTY}, modelID : {0},
          connectionOptions : {0, 1}, connectionsActive : {0, 1, 2, 4, 8, 16, 32, 64, 17},
          modelRotationInDegree : {0}]

\* A hand-off that derails the train.
TrainEnterNextTileDerailing(train, tiles, oob) ==
    [train EXCEPT !.state = TRAIN_STATE_DERAILED]

\* The hand-off branch of TickTrains (progress >= 1.0f), on a train whose
\* progress was already advanced.
\* A hand-off that never looks at connectionsActive and takes the straight
\* connection of the entry's axis.
TrainEnterNextTileByEntryAxis(train, tiles, oob) ==
    LET tileCoords == train.tileNext
        tileIndex == TileIndexByTileCoords(tileCoords.x, tileCoords.z)
        tile == MapTileRead(tiles, tileIndex, oob)
        entrySector == TileSectorGetNextEntryByExit(train.driveToSector)
        activeConnection ==
            IF entrySector = TILE_SECTOR_N \/ entrySector = TILE_SECTOR_S
            THEN CONNECTION_NS_SN
            ELSE CONNECTION_EW_WE
        exitSector ==
            TileSectorGetExitFromEntryAndConnectionDirection(activeConnection, entrySector)
    IN IF tile.type = TILE_TYPE_EMPTY
       THEN [train EXCEPT !.state = TRAIN_STATE_BLOCKED]
       ELSE IF TileInfoHasConnectionForEntry(tile, entrySector) = FALSE
       THEN [train EXCEPT !.state = TRAIN_STATE_BLOCKED]
       ELSE [train EXCEPT !.pathProgressNormalized = @ % ProgressUnit,
                          !.tilePrevious = train.tileCurrent,
                          !.tileCurrent = train.tileNext,
                          !.tileNext = TileGetNextFromExitSector(tileCoords, exitSector),
                          !.driveFromSector = entrySector,
                          !.driveToSector = exitSector,
                          !.tileConnectionUsed = activeConnection]

TrainEnterNextTile(train, tiles, oob) ==
    LET tileCoords == train.tileNext
        tileIndex == TileIndexByTileCoords(tileCoords.x, tileCoords.z)
        tile == MapTileRead(tiles, tileIndex, oob)
        entrySectorNeeded == TileSectorGetNextEntryByExit(train.driveToSector)
        hasConnectionToEntry == TileInfoHasConnectionForEntry(tile, entrySectorNeeded)
        progressNormalized == train.pathProgressNormalized % ProgressUnit
        entrySector == TileSectorGetNextEntryByExit(train.driveToSector)
        activeConnectionCount == TileHConnectionsCount(tile.connectionsActive)
        activeConnection ==
            IF activeConnectionCount = 1 THEN tile.connectionsActive
            ELSE IF entrySector = TILE_SECTOR_N \/ entrySector = TILE_SECTOR_S
            THEN CONNECTION_NS_SN
            ELSE CONNECTION_EW_WE
        exitSector ==
            TileSectorGetExitFromEntryAndConnectionDirection(activeConnection, entrySector)
        nextTile == TileGetNextFromExitSector(tileCoords, exitSector)
    IN IF tile.type = TILE_TYPE_EMPTY
       THEN [train EXCEPT !.state = TRAIN_STATE_BLOCKED]
       ELSE IF hasConnectionToEntry = FALSE
       THEN [train EXCEPT !.state = TRAIN_STATE_BLOCKED]
       ELSE [train EXCEPT !.pathProgressNormalized = progressNormalized,
                          !.tilePrevious = train.tileCurrent,
                          !.tileCurrent = train.tileNext,
                          !.tileNext = nextTile,
                          !.driveFromSector = entrySector,
                          !.driveToSector = exitSector,
                          !.tileConnectionUsed = activeConnection]

\* The position and rotation TickTrains gives a train that is Driving at the end
\* of its step.
TrainUpdateModel(train) ==
    LET startPosition == TileSectorGetEdgePosition(train.tileCurrent, train.driveFromSector)
        endPosition == TileSectorGetEdgePosition(train.tileCurrent, train.driveToSector)
        middlePosition == TileGetCenterPosition(train.tileCurrent)
        position == Bezier3D(startPosition, middlePosition, endPosition,
                             train.pathProgressNormalized)
        lookAheadPosition == Bezier3D(startPosition, middlePosition, endPosition,
                                      train.pathProgressNormalized + LookAhead)
    IN [train EXCEPT !.modelPosition = position,
                     !.modelRotationInDegree = CalculateLookAtAngle(position, lookAheadPosition)]

\* A tick that recomputes position and rotation whatever the state of the train
\* after its step.
TickTrainMovingBlocked(train, tiles, oob, deltaTime) ==
    IF train.state = TRAIN_STATE_DISABLED THEN train
    ELSE IF train.state = TRAIN_STATE_DRIVING
    THEN LET advanced == [train EXCEPT !.pathProgressNormalized =
                                            @ + train.speedDrive * deltaTime]
         IN TrainUpdateModel(IF advanced.pathProgressNormalized >= ProgressUnit
                             THEN TrainEnterNextTile(advanced, tiles, oob)
                             ELSE advanced)
    ELSE IF train.state = TRAIN_STATE_BLOCKED
    THEN LET tileCoords == train.tileNext
             tileIndex == TileIndexByTileCoords(tileCoords.x, tileCoords.z)
         IN IF MapTileRead(tiles, tileIndex, oob).type = TILE_TYPE_RAILS
            THEN [train EXCEPT !.state = TRAIN_STATE_DRIVING]
            ELSE train
    ELSE train

\* A tick whose Blocked branch also asks for the entry connection.
TickTrainRecheckingEntry(train, tiles, oob, deltaTime) ==
    IF train.state = TRAIN_STATE_DISABLED THEN train
    ELSE IF train.state = TRAIN_STATE_DRIVING
    THEN LET advanced == [train EXCEPT !.pathProgressNormalized =
                                            @ + train.speedDrive * deltaTime]
             moved == IF advanced.pathProgressNormalized >= ProgressUnit
                      THEN TrainEnterNextTile(advanced, tiles, oob)
                      ELSE advanced
         IN IF moved.state = TRAIN_STATE_DRIVING THEN TrainUpdateModel(moved) ELSE moved
    ELSE IF train.state = TRAIN_STATE_BLOCKED
    THEN LET tileCoords == train.tileNext
             tileIndex == TileIndexByTileCoords(tileCoords.x, tileCoords.z)
             tile == MapTileRead(tiles, tileIndex, oob)
         IN IF /\ tile.type = TILE_TYPE_RAILS
               /\ TileInfoHasConnectionForEntry(
                      tile, TileSectorGetNextEntryByExit(train.driveToSector))
            THEN [train EXCEPT !.state = TRAIN_STATE_DRIVING]
            ELSE train
    ELSE train

\* A tick whose Blocked branch restarts the progress of the train it resumes.
TickTrainResumingAtZero(train, tiles, oob, deltaTime) ==
    IF train.state = TRAIN_STATE_DISABLED THEN train
    ELSE IF train.state = TRAIN_STATE_DRIVING
    THEN LET advanced == [train EXCEPT !.pathProgressNormalized =
                                            @ + train.speedDrive * deltaTime]
             moved == IF advanced.pathProgressNormalized >= ProgressUnit
                      THEN TrainEnterNextTile(advanced, tiles, oob)
                      ELSE advanced
         IN IF moved.state = TRAIN_STATE_DRIVING THEN TrainUpdateModel(moved) ELSE moved
    ELSE IF train.state = TRAIN_STATE_BLOCKED
    THEN LET tileCoords == train.tileNext
             tileIndex == TileIndexByTileCoords(tileCoords.x, tileCoords.z)
         IN IF MapTileRead(tiles, tileIndex, oob).type = TILE_TYPE_RAILS
            THEN [train EXCEPT !.state = TRAIN_STATE_DRIVING,
                               !.pathProgressNormalized = 0]
            ELSE train
    ELSE train

\* A tick that advances every train that is not Disabled.
TickTrainAdvancingAll(train, tiles, oob, deltaTime) ==
    IF train.state = TRAIN_STATE_DISABLED THEN train
    ELSE [train EXCEPT !.pathProgressNormalized = @ + train.speedDrive * deltaTime]

TickTrain(train, tiles, oob, deltaTime) ==
    IF train.state = TRAIN_STATE_DISABLED THEN train
    ELSE IF train.state = TRAIN_STATE_DRIVING
    THEN LET advanced == [train EXCEPT !.pathProgressNormalized =
                                            @ + train.speedDrive * deltaTime]
             moved == IF advanced.pathProgressNormalized >= ProgressUnit
                      THEN TrainEnterNextTile(advanced, tiles, oob)
                      ELSE advanced
         IN IF moved.state = TRAIN_STATE_DRIVING THEN TrainUpdateModel(moved) ELSE moved
    ELSE IF train.state = TRAIN_STATE_BLOCKED
    THEN LET tileCoords == train.tileNext
             tileIndex == TileIndexByTileCoords(tileCoords.x, tileCoords.z)
         IN IF MapTileRead(tiles, tileIndex, oob).type = TILE_TYPE_RAILS
            THEN [train EXCEPT !.state = TRAIN_STATE_DRIVING]
            ELSE train
    ELSE train

\* A TickTrains without the early return on g_debugSimPauseOn.
TickTrainsWhilePaused(trainSet, tiles, oob, paused, deltaTime) ==
    [i \in DOMAIN trainSet |-> TickTrain(trainSet[i], tiles, oob, deltaTime)]

TickTrains(trainSet, tiles, oob, paused, deltaTime) ==
    IF paused THEN trainSet
    ELSE [i \in DOMAIN trainSet |-> TickTrain(trainSet[i], tiles, oob, deltaTime)]

\* ------------------------------------------------------------------- reset
\* The seeded layout of GameplayResetState is at x 28..33, z 29..31; the model
\* moves it by SeedShift into its smaller grid.
SeedShift == [x |-> 27, z |-> 25]

Seed(x, z) == Coords(x - SeedShift.x, z - SeedShift.z)

StartingRailTracks ==
    << <<29, 29, CONNECTION_EW_WE>>, <<30, 29, CONNECTION_NE_EN>>,
       <<30, 30, CONNECTION_NS_SN>>, <<30, 31, CONNECTION_ES_SE>>,
       <<29, 31, CONNECTION_EW_WE>>, <<28, 31, CONNECTION_SW_WS>>,
       <<28, 30, CONNECTION_NS_SN>>, <<28, 29, CONNECTION_NW_WN>>,
       <<30, 29, CONNECTION_EW_WE>>,
       <<32, 29, CONNECTION_EW_WE>>, <<33, 30, CONNECTION_NS_SN>>,
       <<31, 31, CONNECTION_EW_WE>>,
       <<33, 31, CONNECTION_ES_SE>> >>

RECURSIVE SeedTracks(_, _)
SeedTracks(tiles, n) ==
    IF n = 0 THEN tiles
    ELSE LET track == StartingRailTracks[n]
             at == Seed(track[1], track[2])
         IN TileAddConnectionAndUpdateRailsModel(SeedTracks(tiles, n - 1),
                                                 at.x, at.z, track[3])

ResetTiles ==
    SeedTracks([tileIndex \in 0..(g_TileCount - 1) |-> TileZero], Len(StartingRailTracks))

\* Speeds are in halves: 0.5f is 1 and 3 is 6.
ResetTrain ==
    [state |-> TRAIN_STATE_DISABLED, modelID |-> MODEL_TRAIN_LOCOMOTIVE_A,
     tileCurrent |-> Coords(0, 0), tilePrevious |-> Coords(0, 0), tileNext |-> Coords(0, 0),
     tileConnectionUsed |-> 0, driveFromSector |-> TILE_SECTOR_CENTER,
     driveToSector |-> TILE_SECTOR_CENTER, pathProgressNormalized |-> 0,
     modelRotationInDegree |-> AngleZero, speedDrive |-> 1, speedUnload |-> 6,
     speedLoad |-> 6, modelPosition |-> Vector3Zero]

StartingTrain ==
    [ResetTrain EXCEPT
        !.state = TRAIN_STATE_DRIVING,
        !.tilePrevious = Seed(30, 29),
        !.tileNext = Seed(30, 31),
        !.tileCurrent = Seed(30, 30),
        !.modelPosition = [i \in 1..3 |-> TileGetCenterPosition(Seed(30, 30))[i]
                                          * ProgressUnit * ProgressUnit * ProgressUnit],
        !.pathProgressNormalized = ProgressUnit \div 2,
        !.tileConnectionUsed = CONNECTION_NS_SN,
        !.driveFromSector = TILE_SECTOR_S,
        !.driveToSector = TILE_SECTOR_N]

ResetTrains == [i \in 0..(g_MaxTrains - 1) |-> IF i = 0 THEN StartingTrain ELSE ResetTrain]

\* ------------------------------------------------------------------- state
VARIABLES
    mapTiles,            \* g_game.mapTiles, by tile index
    brushSectorTrail,    \* g_game.brushSectorTrail[0 .. brushSectorTrailLength - 1]
    trains,              \* g_game.trains
    actionMode,          \* g_game.actionMode
    g_debugSimPauseOn,
    frameTime,           \* what GetFrameTime() returns in the frame to come
    lastFrame            \* history: what the last step did

vars == << mapTiles, brushSectorTrail, trains, actionMode, g_debugSimPauseOn,
           frameTime, lastFrame >>

brushSectorTrailLength == Len(brushSectorTrail)

\* ------------------------------------------------------------------ inputs
\* Where the cursor ray may hit the map, and in which sectors.
CursorTiles == { Seed(30, 31) }

CursorSectors == { TILE_SECTOR_S, TILE_SECTOR_CENTER, TILE_SECTOR_N }

\* The mode chosen in the toolbar in a frame (-1: none).
ModeChoices == { -1, ACTION_MODE_BUILD_RAILS, ACTION_MODE_BUILD_BULLDOZER }

\* Frame times after the first frame, whose GetFrameTime() is 0: multiples of
\* half a tile's progress at speedDrive.
FrameTimes == { k * (ProgressUnit \div 2) : k \in 1..MaxFrameSteps }

\* TickToolbarUI
TickToolbarUI(mode, choice) == IF choice = -1 THEN mode ELSE choice

\* RenderDebugWindow, with the debug window on
RenderDebugWindow(paused, pauseClicked) == IF pauseClicked THEN ~paused ELSE paused

\* Whether TickTrains is about to read mapTiles outside the array.
ReadsOutOfArray ==
    /\ ~g_debugSimPauseOn
    /\ \E i \in DOMAIN trains :
          /\ trains[i].state \in {TRAIN_STATE_DRIVING, TRAIN_STATE_BLOCKED}
          /\ TileIndexByTileCoords(trains[i].tileNext.x, trains[i].tileNext.z)
                \notin DOMAIN mapTiles

OutOfArrayReads == IF ReadsOutOfArray THEN OutOfArrayTiles ELSE {TileZero}

\* The model's caps on what grows without bound in the code.
WithinBounds(trainSet, trail) ==
    /\ Len(trail) <= MaxTrail
    /\ \A i \in DOMAIN trainSet :
          /\ trainSet[i].pathProgressNormalized <= MaxProgress
          /\ trainSet[i].tileCurrent.x >= -MaxOffGrid
          /\ trainSet[i].tileCurrent.x <= g_MapGridSize - 1 + MaxOffGrid
          /\ trainSet[i].tileCurrent.z >= -MaxOffGrid
          /\ trainSet[i].tileCurrent.z <= g_MapGridSize - 1 + MaxOffGrid

\* ------------------------------------------------------------------ frames
\* The end of a frame whose TickTrains also empties the tile train 0 is on.
FrameEndAfterWearingTick(ticked, edited) ==
    /\ WithinBounds(ticked, edited.trail)
    /\ trains' = ticked
    /\ mapTiles' = [i \in DOMAIN edited.tiles |->
                       IF i = TileIndexByTileCoords(ticked[0].tileCurrent.x,
                                                    ticked[0].tileCurrent.z)
                       THEN TileZero ELSE edited.tiles[i]]
    /\ brushSectorTrail' = edited.trail
    /\ actionMode' \in { TickToolbarUI(actionMode, choice) : choice \in ModeChoices }
    /\ g_debugSimPauseOn' \in
          { RenderDebugWindow(g_debugSimPauseOn, pauseClicked) : pauseClicked \in BOOLEAN }
    /\ frameTime' = ProgressUnit \div 2
    /\ lastFrame' = [pausedEdit |-> g_debugSimPauseOn /\ edited.tiles # mapTiles]

\* The end of a TickMainLoop whose TickTrains left `ticked` and whose tool left
\* `edited` (tiles and trail): TickToolbarUI, RenderDebugWindow, and the next
\* frame time.
FrameEnd(ticked, edited) ==
    /\ WithinBounds(ticked, edited.trail)
    /\ trains' = ticked
    /\ mapTiles' = edited.tiles
    /\ brushSectorTrail' = edited.trail
    /\ actionMode' \in { TickToolbarUI(actionMode, choice) : choice \in ModeChoices }
    /\ g_debugSimPauseOn' \in
          { RenderDebugWindow(g_debugSimPauseOn, pauseClicked) : pauseClicked \in BOOLEAN }
    /\ frameTime' = ProgressUnit \div 2
    /\ lastFrame' = [pausedEdit |-> g_debugSimPauseOn /\ edited.tiles # mapTiles]

\* What TickPaintRails can leave, over the cursor inputs of a frame.
PaintRailsOutcomes ==
    { TickPaintRails(mapTiles, brushSectorTrail, hit, coords, sector, down, released) :
        hit \in BOOLEAN, coords \in CursorTiles, sector \in CursorSectors,
        down \in BOOLEAN, released \in BOOLEAN }

\* What TickBulldozer can leave, over the cursor inputs of a frame.
BulldozerOutcomes(ticked) ==
    { [tiles |-> TickBulldozer(mapTiles, ticked, hit, coords, pressed),
       trail |-> brushSectorTrail] :
        hit \in BOOLEAN, coords \in CursorTiles, pressed \in BOOLEAN }

\* A frame in ACTION_MODE_BUILD_RAILS: TickTrains, then TickPaintRails.
FramePaintRails ==
    /\ actionMode = ACTION_MODE_BUILD_RAILS
    /\ \E oob \in OutOfArrayReads :
          LET ticked == TickTrains(trains, mapTiles, oob, g_debugSimPauseOn, frameTime)
          IN \E edited \in PaintRailsOutcomes : FrameEnd(ticked, edited)

\* A frame in ACTION_MODE_BUILD_BULLDOZER: TickTrains, then TickBulldozer, which
\* sees the trains as TickTrains left them.
FrameBulldozer ==
    /\ actionMode = ACTION_MODE_BUILD_BULLDOZER
    /\ \E oob \in OutOfArrayReads :
          LET ticked == TickTrains(trains, mapTiles, oob, g_debugSimPauseOn, frameTime)
          IN \E edited \in BulldozerOutcomes(ticked) : FrameEnd(ticked, edited)

NoHistory == [pausedEdit |-> FALSE]

Init ==
    /\ mapTiles = ResetTiles
    /\ brushSectorTrail = <<>>
    /\ trains = ResetTrains
    /\ actionMode = ACTION_MODE_BUILD_RAILS
    /\ g_debugSimPauseOn = FALSE
    /\ frameTime = 0
    /\ lastFrame = NoHistory

Next == FramePaintRails \/ FrameBulldozer

Spec == Init /\ [][Next]_vars

\* ---------------------------------------------------- ticking an edited map
\* SpecTick starts where the simulation is resumed after an editing session held
\* under "Pause Sim", which was clicked in the first frame (whose GetFrameTime()
\* is 0): the train is where the first tick left it, and the map is the seeded
\* one after the session's bulldozes and bakes. From there frames only tick.

\* One step of a session at tile `at`: a bulldozer press when doze, then bakes
\* adding the connections of add, in order.
RECURSIVE EditBakes(_, _, _)
EditBakes(tiles, at, add) ==
    IF add = <<>> THEN tiles
    ELSE EditBakes(TileAddConnectionAndUpdateRailsModel(tiles, at.x, at.z, Head(add)),
                   at, Tail(add))

EditStep(tiles, trainSet, step) ==
    EditBakes(IF step.doze THEN TickBulldozer(tiles, trainSet, TRUE, step.at, TRUE)
              ELSE tiles,
              step.at, step.add)

RECURSIVE EditSession(_, _, _)
EditSession(tiles, trainSet, plan) ==
    IF plan = <<>> THEN tiles
    ELSE EditSession(EditStep(tiles, trainSet, Head(plan)), trainSet, Tail(plan))

\* The eight tiles of the seeded loop.
LoopTiles ==
    { Seed(30, 30), Seed(30, 31), Seed(29, 31), Seed(28, 31),
      Seed(28, 30), Seed(28, 29), Seed(29, 29), Seed(30, 29) }

\* Up to two connections, in order.
ConnectionSeqs ==
    {<<>>} \cup [1..1 -> ConnectionDirections] \cup [1..2 -> ConnectionDirections]

Edit(at, doze, add) == [at |-> at, doze |-> doze, add |-> add]

\* Sessions that edit one tile of the loop.
OneTilePlans ==
    { << Edit(at, doze, add) >> :
        at \in LoopTiles, doze \in BOOLEAN, add \in ConnectionSeqs }

\* A straight North-South track from the loop tile at column x down to the row
\* z = 0, its last tile carrying the connection `last`.
RECURSIVE SouthRun(_, _, _)
SouthRun(x, z, last) ==
    IF z = 0 THEN << Edit(Coords(x, 0), TRUE, <<last>>) >>
    ELSE << Edit(Coords(x, z), TRUE, <<CONNECTION_NS_SN>>) >> \o SouthRun(x, z - 1, last)

\* A straight East-West track along row z from column x to column 0.
RECURSIVE EastRun(_, _)
EastRun(x, z) ==
    IF x < 0 THEN <<>>
    ELSE << Edit(Coords(x, z), TRUE, <<CONNECTION_EW_WE>>) >> \o EastRun(x - 1, z)

\* Sessions that lead the train off the loop to a border of the grid.
BorderPlans ==
    { SouthRun(Seed(28, 29).x, Seed(28, 29).z, last) :
        last \in {CONNECTION_NS_SN, CONNECTION_NE_EN, CONNECTION_NW_WN} }
    \cup { EastRun(Seed(28, 31).x, Seed(28, 31).z) }

EditPlans == OneTilePlans \cup BorderPlans

\* The trains after the first frame.
FirstFrameTrains == TickTrains(ResetTrains, ResetTiles, TileZero, FALSE, 0)

InitTick ==
    /\ \E plan \in EditPlans : mapTiles = EditSession(ResetTiles, FirstFrameTrains, plan)
    /\ brushSectorTrail = <<>>
    /\ trains = FirstFrameTrains
    /\ actionMode = ACTION_MODE_BUILD_RAILS
    /\ g_debugSimPauseOn = FALSE
    /\ frameTime \in FrameTimes
    /\ lastFrame = NoHistory

\* A frame in which the cursor ray misses the map and nothing is clicked.
FrameIdle ==
    /\ \E oob \in OutOfArrayReads :
          LET ticked == TickTrains(trains, mapTiles, oob, g_debugSimPauseOn, frameTime)
          IN /\ WithinBounds(ticked, brushSectorTrail)
             /\ trains' = ticked
    /\ frameTime' \in FrameTimes
    /\ UNCHANGED << mapTiles, brushSectorTrail, actionMode, g_debugSimPauseOn, lastFrame >>

NextTick == FrameIdle

SpecTick == InitTick /\ [][NextTick]_vars

\* ------------------------------------------------------- editing one tile
\* SpecTiles applies the editing operations, one call a step, to the seeded
\* map: TileAddRailConnection, the bake of a trail, and a bulldozer press. The
\* simulation is paused since the first frame, and lastFrame keeps the last call
\* and, but for a bake, the options its tile had before it.

\* The tile the calls edit: a corner of the seeded loop, next to the train.
EditTiles == { Seed(30, 31) }

\* The tiles the bulldozer is pressed on: the edited tile and a tile of the row
\* the train is on.
BulldozeTiles == EditTiles \cup { Seed(28, 30) }

\* A sector between two samples of a trail: successive samples of a trail
\* differ, and the centre is between any two other sectors.
TrailMiddle(first, last) ==
    IF first # TILE_SECTOR_CENTER /\ last # TILE_SECTOR_CENTER THEN TILE_SECTOR_CENTER
    ELSE CHOOSE sector \in {TILE_SECTOR_N, TILE_SECTOR_S} : sector \notin {first, last}

\* The trails a bake may find on a tile: two samples, or three with any first
\* and last sector.
TrailsToBake ==
    { << TrailSample(at, first), TrailSample(at, last) >> :
        at \in EditTiles, first \in {TILE_SECTOR_N}, last \in {TILE_SECTOR_CENTER} }
    \cup { << TrailSample(at, first), TrailSample(at, TrailMiddle(first, last)),
              TrailSample(at, last) >> :
            at \in EditTiles, first \in TileSectors, last \in TileSectors }

\* The connectionOptions of the tile at coords.
OptionsAt(tiles, at) == tiles[TileIndexByTileCoords(at.x, at.z)].connectionOptions

InitTiles ==
    /\ mapTiles = ResetTiles
    /\ brushSectorTrail = <<>>
    /\ trains = FirstFrameTrains
    /\ actionMode = ACTION_MODE_BUILD_RAILS
    /\ g_debugSimPauseOn = TRUE
    /\ frameTime = 0
    /\ lastFrame = [op |-> "reset", at |-> Coords(0, 0), connection |-> 0,
                    optionsBefore |-> 0]

CallTileAddRailConnection ==
    \E at \in EditTiles, connection \in ConnectionDirections :
        /\ mapTiles' = TileAddRailConnection(mapTiles, at.x, at.z, connection)
        /\ lastFrame' = [op |-> "TileAddRailConnection", at |-> at,
                         connection |-> connection,
                         optionsBefore |-> OptionsAt(mapTiles, at)]
        /\ UNCHANGED << brushSectorTrail, trains, actionMode, g_debugSimPauseOn, frameTime >>

CallSectorTrailBakeConnection ==
    \E trail \in TrailsToBake :
        /\ mapTiles' = SectorTrailBakeConnection(mapTiles, trail)
        /\ lastFrame' = [op |-> "SectorTrailBakeConnection", at |-> trail[1].coords,
                         connection |->
                            IF Len(trail) = 3
                            THEN SectorTrailConnection(trail[1].sector, trail[3].sector)
                            ELSE 0]
        /\ UNCHANGED << brushSectorTrail, trains, actionMode, g_debugSimPauseOn, frameTime >>

CallTickBulldozer ==
    \E at \in BulldozeTiles :
        /\ mapTiles' = TickBulldozer(mapTiles, trains, TRUE, at, TRUE)
        /\ lastFrame' = [op |-> "TickBulldozer", at |-> at, connection |-> 0,
                         optionsBefore |-> OptionsAt(mapTiles, at)]
        /\ UNCHANGED << brushSectorTrail, trains, actionMode, g_debugSimPauseOn, frameTime >>

NextTiles ==
    CallTileAddRailConnection \/ CallSectorTrailBakeConnection \/ CallTickBulldozer

SpecTiles == InitTiles /\ [][NextTiles]_vars

\* -------------------------------------------------------- pure functions
\* SpecPure calls the functions that read no state on every input of a bounded
\* set, and keeps the call and its result in lastFrame.
InitPure ==
    /\ mapTiles = ResetTiles
    /\ brushSectorTrail = <<>>
    /\ trains = ResetTrains
    /\ actionMode = ACTION_MODE_BUILD_RAILS
    /\ g_debugSimPauseOn = FALSE
    /\ frameTime = 0
    /\ lastFrame = [op |-> "reset"]

CallTileGetNextFromExitSector ==
    \E tileCoords \in GridCoords, exitSector \in TileSectors :
        /\ lastFrame' = [op |-> "TileGetNextFromExitSector", tileCoords |-> tileCoords,
                         exitSector |-> exitSector,
                         result |-> TileGetNextFromExitSector(tileCoords, exitSector)]
        /\ UNCHANGED << mapTiles, brushSectorTrail, trains, actionMode,
                        g_debugSimPauseOn, frameTime >>

\* exit = TileSectorGetExitFromEntryAndConnectionDirection(connection, entry),
\* and the same call again with the exit as the entry.
CallTileSectorGetExitFromEntryAndConnectionDirection ==
    \E connection \in ConnectionDirections, entry \in TileSectors :
        LET exit == TileSectorGetExitFromEntryAndConnectionDirection(connection, entry)
        IN /\ lastFrame' = [op |-> "TileSectorGetExitFromEntryAndConnectionDirection",
                            connection |-> connection, entry |-> entry,
                            result |-> exit,
                            back |-> TileSectorGetExitFromEntryAndConnectionDirection(
                                         connection, exit)]
           /\ UNCHANGED << mapTiles, brushSectorTrail, trains, actionMode,
                           g_debugSimPauseOn, frameTime >>

\* The values connectionOptions takes: every set of the six connections.
ConnectionOptionValues == 0..(2 * CONNECTION_SW_WS - 1)

\* TileHasConnectionForEntry on a tile with the given connectionOptions.
CallTileHasConnectionForEntry ==
    \E options \in ConnectionOptionValues, entrySector \in TileSectors :
        /\ lastFrame' = [op |-> "TileHasConnectionForEntry",
                         options |-> options, entrySector |-> entrySector,
                         result |-> TileInfoHasConnectionForEntry(
                                       [TileZero EXCEPT !.type = TILE_TYPE_RAILS,
                                                        !.connectionOptions = options],
                                       entrySector)]
        /\ UNCHANGED << mapTiles, brushSectorTrail, trains, actionMode,
                        g_debugSimPauseOn, frameTime >>

\* The states of the enum TrainState.
TrainStates ==
    { TRAIN_STATE_DISABLED, TRAIN_STATE_HIDDEN, TRAIN_STATE_BLOCKED, TRAIN_STATE_DRIVING,
      TRAIN_STATE_UNLOAD, TRAIN_STATE_LOAD, TRAIN_STATE_DERAILED }

\* The body of the loop of TickTrains on one train of the seeded map: the
\* starting train in any state, heading for the Rails tile of the loop or for
\* an empty tile, half a tile or nearly a whole tile along its path.
CallTickTrain ==
    \E state \in TrainStates, tileNext \in { Seed(30, 31), Seed(31, 30) },
       progress \in { ProgressUnit \div 2, ProgressUnit - 1 } :
        LET train == [StartingTrain EXCEPT !.state = state, !.tileNext = tileNext,
                                           !.pathProgressNormalized = progress]
        IN /\ lastFrame' = [op |-> "TickTrains", train |-> train,
                            result |-> TickTrain(train, mapTiles, TileZero,
                                                 ProgressUnit \div 2)]
           /\ UNCHANGED << mapTiles, brushSectorTrail, trains, actionMode,
                           g_debugSimPauseOn, frameTime >>

\* TileHConnectionsCount on every value of connectionOptions.
CallTileHConnectionsCount ==
    \E flags \in ConnectionOptionValues :
        /\ lastFrame' = [op |-> "TileHConnectionsCount", flags |-> flags,
                         result |-> TileHConnectionsCount(flags)]
        /\ UNCHANGED << mapTiles, brushSectorTrail, trains, actionMode,
                        g_debugSimPauseOn, frameTime >>

\* World coordinates in units of 1 / PosScale: on both sides of the map's two
\* borders, at whole tiles and between them.
WorldCoordinates ==
    { tile * PosScale + part :
        tile \in { -2, -1, 0, 1, g_MapGridSize - 1, g_MapGridSize, g_MapGridSize + 1 },
        part \in { 0, 1, PosScale \div 2, PosScale - 1 } }

\* TileGetCoordsFromWorldPoint on points of the ground plane, on the map and
\* off it on each axis.
CallTileGetCoordsFromWorldPoint ==
    \E along \in WorldCoordinates,
       across \in { -PosScale \div 2, PosScale \div 2, g_MapGridSize * PosScale + 1 },
       swap \in BOOLEAN :
        LET position == IF swap THEN << across, 0, along >> ELSE << along, 0, across >>
        IN /\ lastFrame' = [op |-> "TileGetCoordsFromWorldPoint", position |-> position,
                            result |-> TileGetCoordsFromWorldPoint(position)]
           /\ UNCHANGED << mapTiles, brushSectorTrail, trains, actionMode,
                           g_debugSimPauseOn, frameTime >>

NextPure ==
    \/ CallTickTrain
    \/ CallTileGetCoordsFromWorldPoint
    \/ CallTileHConnectionsCount
    \/ CallTileGetNextFromExitSector
    \/ CallTileSectorGetExitFromEntryAndConnectionDirection
    \/ CallTileHasConnectionForEntry

SpecPure == InitPure /\ [][NextPure]_vars

\* -------------------------------------------------------- paint gestures
\* SpecPaint runs TickPaintRails under "Pause Sim", frame after frame, with the
\* cursor on one of two neighbouring tiles, a tile of the seeded loop and an
\* empty one: frames with the button held down, which call SectorTrailPaintAt,
\* and frames in which it is released. lastFrame keeps the cursor of the frame.
PaintTiles == { Seed(30, 30), Seed(31, 30) }

PaintSectors == { TILE_SECTOR_N, TILE_SECTOR_CENTER, TILE_SECTOR_S, TILE_SECTOR_E }

InitPaint ==
    /\ mapTiles = ResetTiles
    /\ brushSectorTrail = <<>>
    /\ trains = FirstFrameTrains
    /\ actionMode = ACTION_MODE_BUILD_RAILS
    /\ g_debugSimPauseOn = TRUE
    /\ frameTime = 0
    /\ lastFrame = [op |-> "reset", coords |-> Coords(0, 0), sector |-> TILE_SECTOR_CENTER]

\* A frame with the ray on the map and the button down, not released.
FramePaintDown ==
    \E coords \in PaintTiles, sector \in PaintSectors :
        LET painted == TickPaintRails(mapTiles, brushSectorTrail, TRUE, coords, sector,
                                      TRUE, FALSE)
        IN /\ Len(painted.trail) <= MaxTrail
           /\ mapTiles' = painted.tiles
           /\ brushSectorTrail' = painted.trail
           /\ lastFrame' = [op |-> "SectorTrailPaintAt", coords |-> coords,
                            sector |-> sector]
           /\ UNCHANGED << trains, actionMode, g_debugSimPauseOn, frameTime >>

\* A frame with the ray on the map in which the button is released.
FramePaintReleased ==
    \E coords \in PaintTiles, sector \in PaintSectors :
        LET painted == TickPaintRails(mapTiles, brushSectorTrail, TRUE, coords, sector,
                                      FALSE, TRUE)
        IN /\ mapTiles' = painted.tiles
           /\ brushSectorTrail' = painted.trail
           /\ lastFrame' = [op |-> "released", coords |-> coords, sector |-> sector]
           /\ UNCHANGED << trains, actionMode, g_debugSimPauseOn, frameTime >>

NextPaint == FramePaintDown \/ FramePaintReleased

SpecPaint == InitPaint /\ [][NextPaint]_vars

\* ------------------------------------------------------------ one bake
\* SpecBake starts on the seeded map after a paused editing session on one tile
\* (a bulldozer press or none, then up to two connections), and calls
\* SectorTrailBakeConnection with a trail on that tile. lastFrame keeps the
\* length of the trail, its tile, its first and last sector, and the
\* connectionOptions of the tile before the bake.

\* n sectors that continue a trail after the sector prev and before the sector
\* last: successive samples of a trail differ.
RECURSIVE TrailFill(_, _, _)
TrailFill(prev, last, n) ==
    IF n = 0 THEN <<>>
    ELSE LET sector == CHOOSE c \in {TILE_SECTOR_CENTER, TILE_SECTOR_N, TILE_SECTOR_S} :
                          c # prev /\ (n = 1 => c # last)
         IN << sector >> \o TrailFill(sector, last, n - 1)

\* The trail of the given length on the tile at, from first to last.
TrailOf(at, first, last, length) ==
    LET sectors == IF length = 0 THEN <<>>
                   ELSE IF length = 1 THEN << first >>
                   ELSE << first >> \o TrailFill(first, last, length - 2) \o << last >>
    IN [i \in 1..length |-> TrailSample(at, sectors[i])]

\* Trails of every length from 0 to two more than MaxTrail: three samples with
\* any first and last sector, two with edge sectors and the centre, four and
\* more with edge sectors.
BakeTrails ==
    { <<>> }
    \cup { TrailOf(at, first, first, 1) : at \in EditTiles, first \in TileSectors }
    \cup { TrailOf(at, first, last, 3) :
             at \in EditTiles, first \in TileSectors, last \in TileSectors }
    \cup { TrailOf(at, pair[1], pair[2], 2) :
             at \in EditTiles,
             pair \in { p \in (EdgeSectors \cup {TILE_SECTOR_CENTER})
                               \X (EdgeSectors \cup {TILE_SECTOR_CENTER}) : p[1] # p[2] } }
    \cup { TrailOf(at, pair[1], pair[2], length) :
             at \in EditTiles,
             pair \in { p \in EdgeSectors \X EdgeSectors : p[1] # p[2] },
             length \in 4..(MaxTrail + 2) }

BakeRecord(bakes, trail, tiles) ==
    IF trail = <<>>
    THEN [op |-> "SectorTrailBakeConnection", bakes |-> bakes, length |-> 0,
          at |-> Coords(0, 0), first |-> TILE_SECTOR_CENTER, last |-> TILE_SECTOR_CENTER,
          optionsBefore |-> 0]
    ELSE [op |-> "SectorTrailBakeConnection", bakes |-> bakes, length |-> Len(trail),
          at |-> trail[1].coords, first |-> trail[1].sector,
          last |-> trail[Len(trail)].sector,
          optionsBefore |-> OptionsAt(tiles, trail[1].coords)]

InitBake ==
    /\ \E at \in EditTiles, doze \in BOOLEAN, add \in ConnectionSeqs :
          mapTiles = EditSession(ResetTiles, FirstFrameTrains, << Edit(at, doze, add) >>)
    /\ brushSectorTrail = <<>>
    /\ trains = FirstFrameTrains
    /\ actionMode = ACTION_MODE_BUILD_RAILS
    /\ g_debugSimPauseOn = TRUE
    /\ frameTime = 0
    /\ lastFrame = [op |-> "reset", bakes |-> 0, length |-> 0, at |-> Coords(0, 0),
                    first |-> TILE_SECTOR_CENTER, last |-> TILE_SECTOR_CENTER,
                    optionsBefore |-> 0]

CallBake ==
    /\ lastFrame.bakes < MaxBakes
    /\ \E trail \in BakeTrails :
          /\ mapTiles' = SectorTrailBakeConnection(mapTiles, trail)
          /\ lastFrame' = BakeRecord(lastFrame.bakes + 1, trail, mapTiles)
    /\ UNCHANGED << brushSectorTrail, trains, actionMode, g_debugSimPauseOn, frameTime >>

NextBake == CallBake

SpecBake == InitBake /\ [][NextBake]_vars

\* ------------------------------------------------------- one long gesture
\* SpecStroke runs TickPaintRails under "Pause Sim" with the button held down,
\* the cursor going back and forth between two sectors of one of two empty
\* tiles, and with frames in which the button is released, the ray on the map
\* or off it. The trail is the
\* array brushSectorTrail[g_MapGridSize * g_MapGridSize] and the int
\* brushSectorTrailLength that follows it in g_game: SectorTrailPaintAt writes
\* brushSectorTrail[brushSectorTrailLength] without a test, so that the sample
\* after the last entry is written past the end of the array, which is
\* undefined: the write may leave the length one more than the array holds, or
\* any length of the array, having run over the int that follows the array.
StrokeTiles == { Seed(31, 30), Seed(32, 30) }

StrokeSectors == { TILE_SECTOR_N, TILE_SECTOR_CENTER }

\* The trails a paint step can leave: the one computed when it fits in the
\* array, and otherwise every outcome of the write past its end.
TrailWritten(trail) ==
    IF Len(trail) <= g_TileCount THEN { trail }
    ELSE { trail } \cup { SubSeq(trail, 1, length) : length \in 0..g_TileCount }

InitStroke ==
    /\ mapTiles = ResetTiles
    /\ brushSectorTrail = <<>>
    /\ trains = FirstFrameTrains
    /\ actionMode = ACTION_MODE_BUILD_RAILS
    /\ g_debugSimPauseOn = TRUE
    /\ frameTime = 0
    /\ lastFrame = [op |-> "reset", coords |-> Coords(0, 0), sector |-> TILE_SECTOR_CENTER]

\* A frame with the ray on the map and the button down, not released.
FrameStrokeDown ==
    /\ brushSectorTrailLength <= g_TileCount
    /\ \E coords \in StrokeTiles, sector \in StrokeSectors :
          LET painted == TickPaintRails(mapTiles, brushSectorTrail, TRUE, coords, sector,
                                        TRUE, FALSE)
          IN /\ mapTiles' = painted.tiles
             /\ brushSectorTrail' \in TrailWritten(painted.trail)
             /\ lastFrame' = [op |-> "SectorTrailPaintAt", coords |-> coords,
                              sector |-> sector]
    /\ UNCHANGED << trains, actionMode, g_debugSimPauseOn, frameTime >>

\* A frame with the ray on the map in which the button is released.
FrameStrokeReleased ==
    /\ brushSectorTrailLength <= g_TileCount
    /\ \E coords \in StrokeTiles, sector \in StrokeSectors :
          LET painted == TickPaintRails(mapTiles, brushSectorTrail, TRUE, coords, sector,
                                        FALSE, TRUE)
          IN /\ mapTiles' = painted.tiles
             /\ brushSectorTrail' = painted.trail
             /\ lastFrame' = [op |-> "released", coords |-> coords, sector |-> sector,
                              hit |-> TRUE]
    /\ UNCHANGED << trains, actionMode, g_debugSimPauseOn, frameTime >>

\* A frame in which the button is released with the ray off the map: the
\* coordinates and the sector are not computed.
FrameStrokeReleasedOffMap ==
    /\ brushSectorTrailLength <= g_TileCount
    /\ LET painted == TickPaintRails(mapTiles, brushSectorTrail, FALSE, Coords(0, 0),
                                     TILE_SECTOR_CENTER, FALSE, TRUE)
       IN /\ mapTiles' = painted.tiles
          /\ brushSectorTrail' = painted.trail
          /\ lastFrame' = [op |-> "released", coords |-> Coords(0, 0),
                           sector |-> TILE_SECTOR_CENTER, hit |-> FALSE]
    /\ UNCHANGED << trains, actionMode, g_debugSimPauseOn, frameTime >>

NextStroke == FrameStrokeDown \/ FrameStrokeReleased \/ FrameStrokeReleasedOffMap

SpecStroke == InitStroke /\ [][NextStroke]_vars

\* ------------------------------------------------- resuming a waiting train
\* SpecResume starts where the simulation is resumed after this course: under
\* "Pause Sim" a tile of the seeded loop is bulldozed; the simulation runs
\* until the train is Blocked before that tile; under "Pause Sim" again, bakes
\* add up to two connections to the tile. From there frames only tick, and
\* lastFrame keeps the trains as they waited and the number of ticks since.

\* Ticks enough for the train to go once round the loop.
WaitTicks == 2 * (Cardinality(LoopTiles) + 1)

\* The trains after ticks of half a tile each, up to the tick that blocks
\* train 0.
RECURSIVE TicksUntilBlocked(_, _, _)
TicksUntilBlocked(trainSet, tiles, ticks) ==
    IF ticks = 0 \/ trainSet[0].state = TRAIN_STATE_BLOCKED THEN trainSet
    ELSE TicksUntilBlocked(
             TickTrains(trainSet, tiles, TileZero, FALSE, ProgressUnit \div 2),
             tiles, ticks - 1)

\* The tiles after the bulldozer press on the loop tile `at`.
DozedLoop(at) == TickBulldozer(ResetTiles, FirstFrameTrains, TRUE, at, TRUE)

InitResume ==
    /\ \E at \in LoopTiles, add \in ConnectionSeqs :
          LET waiting == TicksUntilBlocked(FirstFrameTrains, DozedLoop(at), WaitTicks)
          IN /\ waiting[0].state = TRAIN_STATE_BLOCKED
             /\ trains = waiting
             /\ mapTiles = EditBakes(DozedLoop(at), at, add)
             /\ lastFrame = [waiting |-> waiting, ticks |-> 0]
    /\ brushSectorTrail = <<>>
    /\ actionMode = ACTION_MODE_BUILD_RAILS
    /\ g_debugSimPauseOn = FALSE
    /\ frameTime \in FrameTimes

\* A frame in which the cursor ray misses the map and nothing is clicked. The
\* number of frames is capped, which caps the progress of a train and how far
\* off the grid it gets.
FrameResume ==
    /\ lastFrame.ticks < MaxResumeTicks
    /\ \E oob \in OutOfArrayReads :
          trains' = TickTrains(trains, mapTiles, oob, g_debugSimPauseOn, frameTime)
    /\ frameTime' \in FrameTimes
    /\ lastFrame' = [lastFrame EXCEPT !.ticks = @ + 1]
    /\ UNCHANGED << mapTiles, brushSectorTrail, actionMode, g_debugSimPauseOn >>

NextResume == FrameResume

SpecResume == InitResume /\ [][NextResume]_vars

\* ------------------------------------------------------ the seeded loop
\* SpecLoop runs the seeded map untouched and unpaused, and keeps in lastFrame
\* the progress the train was given since reset (speedDrive * GetFrameTime(),
\* summed) and whether one tick carried the progress to 2.0 or beyond, where
\* fmodf drops a whole tile.
LoopFrameTimes == 1..(MaxFrameSteps * (ProgressUnit \div 2))

InitLoop ==
    /\ mapTiles = ResetTiles
    /\ brushSectorTrail = <<>>
    /\ trains = ResetTrains
    /\ actionMode = ACTION_MODE_BUILD_RAILS
    /\ g_debugSimPauseOn = FALSE
    /\ frameTime = 0
    /\ lastFrame = [travelled |-> 0, dropped |-> FALSE]

\* What the tick to come adds to the progress of train 0.
ProgressGiven ==
    IF trains[0].state = TRAIN_STATE_DRIVING THEN trains[0].speedDrive * frameTime ELSE 0

FrameLoop ==
    /\ lastFrame.travelled + ProgressGiven <= MaxTravel
    /\ trains' = TickTrains(trains, mapTiles, TileZero, g_debugSimPauseOn, frameTime)
    /\ frameTime' \in LoopFrameTimes
    /\ lastFrame' =
          [travelled |-> lastFrame.travelled + ProgressGiven,
           dropped |-> \/ lastFrame.dropped
                       \/ trains[0].pathProgressNormalized + ProgressGiven
                             >= 2 * ProgressUnit]
    /\ UNCHANGED << mapTiles, brushSectorTrail, actionMode, g_debugSimPauseOn >>

NextLoop == FrameLoop

SpecLoop == InitLoop /\ [][NextLoop]_vars

\* SpecLoopFair is the same run with no count of the progress given, so that it
\* goes on for ever: every frame has a frame time above 0, and TickMainLoop is
\* called again by the main loop as long as the window is open. lastFrame keeps
\* whether the train has been on the tile holding NE/EN and EW/WE.
InitLoopFair ==
    /\ mapTiles = ResetTiles
    /\ brushSectorTrail = <<>>
    /\ trains = ResetTrains
    /\ actionMode = ACTION_MODE_BUILD_RAILS
    /\ g_debugSimPauseOn = FALSE
    /\ frameTime = 0
    /\ lastFrame = [passed |-> FALSE]

FrameLoopFair ==
    /\ trains' = TickTrains(trains, mapTiles, TileZero, g_debugSimPauseOn, frameTime)
    /\ frameTime' \in LoopFrameTimes
    /\ lastFrame' = [passed |-> lastFrame.passed \/ trains'[0].tileCurrent = Seed(30, 29)]
    /\ UNCHANGED << mapTiles, brushSectorTrail, actionMode, g_debugSimPauseOn >>

NextLoopFair == FrameLoopFair

\* Frames keep coming. FrameLoopFair is enabled in every state, so this is the
\* weak fairness of the frame, WF_vars(FrameLoopFair), written without ENABLED.
FramesKeepComing == []<><<FrameLoopFair>>_vars

SpecLoopFair == InitLoopFair /\ [][NextLoopFair]_vars /\ FramesKeepComing

\* ================================================================ claims
TrainIds == DOMAIN trains

\* The index TickTrains computes from the tileNext of a train.
NextTileIndex(train) == TileIndexByTileCoords(train.tileNext.x, train.tileNext.z)

\* The TileInfo TickTrains reads for a train whose index is inside the array.
NextTileInfo(train) == mapTiles[NextTileIndex(train)]

ReadsInsideArray(train) == NextTileIndex(train) \in DOMAIN mapTiles

\* The progress the tick to come gives a Driving train.
AdvancedProgress(train) == train.pathProgressNormalized + train.speedDrive * frameTime

\* A Driving train whose progress reaches 1.0 in the tick to come.
ReachesOne(train) ==
    /\ ~g_debugSimPauseOn
    /\ train.state = TRAIN_STATE_DRIVING
    /\ AdvancedProgress(train) >= ProgressUnit
    /\ ReadsInsideArray(train)

NeededEntry(train) == TileSectorGetNextEntryByExit(train.driveToSector)

\* tileNext is a Rails tile with a connection for the needed entry sector.
NextTileFits(train) ==
    /\ NextTileInfo(train).type = TILE_TYPE_RAILS
    /\ TileInfoHasConnectionForEntry(NextTileInfo(train), NeededEntry(train))

ActiveConnections(tile) ==
    { c \in ConnectionDirections : BitAnd(tile.connectionsActive, c) # 0 }

GridSteps(from, to) == Abs(to.x - from.x) + Abs(to.z - from.z)

\* ---- C1 (SpecTiles)
\* C1: after any sequence of TileAddRailConnection calls, bakes and bulldozer
\* presses from reset, every tile has connectionsActive within
\* connectionOptions: no active bit is set whose option bit is clear.
C1_ActiveWithinOptions ==
    \A tileIndex \in DOMAIN mapTiles :
        BitAnd(mapTiles[tileIndex].connectionsActive,
               mapTiles[tileIndex].connectionOptions)
            = mapTiles[tileIndex].connectionsActive

\* A bake has just made the edited tile, bulldozed before, a crossing with its
\* two connections active.
C1_Witness ==
    /\ lastFrame.op = "SectorTrailBakeConnection"
    /\ lastFrame.connection # 0
    /\ \E at \in EditTiles :
          LET tile == mapTiles[TileIndexByTileCoords(at.x, at.z)]
          IN /\ tile.connectionsActive = BitOr(CONNECTION_NS_SN, CONNECTION_EW_WE)
             /\ tile.connectionOptions = tile.connectionsActive

\* ---- C2 (Spec)
\* C2: after any frames from reset, every train that is not Disabled has
\* tileCurrent, tilePrevious and tileNext inside the grid, and the index
\* TickTrains computes from tileNext is inside mapTiles.
C2_TrainTilesInGrid ==
    \A i \in TrainIds :
        trains[i].state # TRAIN_STATE_DISABLED =>
            /\ InGrid(trains[i].tileCurrent)
            /\ InGrid(trains[i].tilePrevious)
            /\ InGrid(trains[i].tileNext)
            /\ ReadsInsideArray(trains[i])

\* ---- C7 (Spec)
\* C7: at the end of every tick, every Driving train has its progress in
\* [0, 1), the ticks in which a Blocked train resumes included.
C7_DrivingProgressBelowOne ==
    \A i \in TrainIds :
        trains[i].state = TRAIN_STATE_DRIVING =>
            /\ trains[i].pathProgressNormalized >= 0
            /\ trains[i].pathProgressNormalized < ProgressUnit

\* ---- C9 (Spec)
\* C9: a frame that starts with g_debugSimPauseOn set changes no field of any
\* train; its paint or bulldoze still edits the grid (the witness).
C9_PausedTickChangesNoTrain ==
    [][g_debugSimPauseOn => trains' = trains]_vars

\* The last frame was paused and its tool changed mapTiles, next to a train that
\* was Driving.
C9_Witness ==
    /\ lastFrame.pausedEdit
    /\ \E i \in TrainIds : trains[i].state = TRAIN_STATE_DRIVING

\* ---- C3 (SpecPure)
\* The step an edge sector implies: North is z + 1, South z - 1, West x + 1 and
\* East x - 1, as TileSectorGetCenterPosition lays the sectors out.
SectorStep(sector) ==
    CASE sector = TILE_SECTOR_N -> Coords(0, 1)
      [] sector = TILE_SECTOR_S -> Coords(0, -1)
      [] sector = TILE_SECTOR_W -> Coords(1, 0)
      [] sector = TILE_SECTOR_E -> Coords(-1, 0)
      [] OTHER -> Coords(0, 0)

ClampedNeighbor(tileCoords, sector) ==
    LET stepped == Coords(tileCoords.x + SectorStep(sector).x,
                          tileCoords.z + SectorStep(sector).z)
    IN IF InGrid(stepped) THEN stepped ELSE tileCoords

\* C3: for every tile of the grid, TileGetNextFromExitSector returns the tile
\* one step away in the direction of an edge exit sector when that tile is in
\* the grid, and the input tile when it is not or the sector is no edge sector.
C3_NeighborTileClamped ==
    lastFrame.op = "TileGetNextFromExitSector" =>
        lastFrame.result = ClampedNeighbor(lastFrame.tileCoords, lastFrame.exitSector)

\* ---- C4 (SpecTick)
\* C4: when the progress of a Driving train reaches 1.0 in a tick and tileNext
\* (a tile of the array) is Empty or has no connection for the needed entry
\* sector, the train ends the tick Blocked with its advanced progress, neither
\* wrapped nor reset, and every other field as before the tick.
C4_BlockedAtBoundary ==
    [][\A i \in TrainIds :
          (ReachesOne(trains[i]) /\ ~NextTileFits(trains[i])) =>
              trains'[i] = [trains[i] EXCEPT
                               !.state = TRAIN_STATE_BLOCKED,
                               !.pathProgressNormalized = AdvancedProgress(trains[i])]]_vars

\* A train is Blocked before an Empty tile, its progress at 1.0 or beyond and
\* its position the one computed at a progress below 1.0.
C4_Witness ==
    \E i \in TrainIds :
        /\ trains[i].state = TRAIN_STATE_BLOCKED
        /\ trains[i].pathProgressNormalized >= ProgressUnit
        /\ ReadsInsideArray(trains[i])
        /\ NextTileInfo(trains[i]).type = TILE_TYPE_EMPTY

\* ---- C5 (SpecTick)
\* What every hand-off does to a train, old before and new after the tick.
HandOffCommit(old, new, progress) ==
    /\ new.state = TRAIN_STATE_DRIVING
    /\ new.tilePrevious = old.tileCurrent
    /\ new.tileCurrent = old.tileNext
    /\ new.tileNext = TileGetNextFromExitSector(old.tileNext, new.driveToSector)
    /\ new.pathProgressNormalized = progress % ProgressUnit

ResolvedConnection(tile, entry) ==
    IF Cardinality(ActiveConnections(tile)) = 1
    THEN CHOOSE c \in ActiveConnections(tile) : TRUE
    ELSE IF entry \in {TILE_SECTOR_N, TILE_SECTOR_S}
    THEN CONNECTION_NS_SN
    ELSE CONNECTION_EW_WE

\* C6: a committed hand-off uses the one active connection of tileNext when it
\* has exactly one, else NS/SN for an entry at N or S and EW/WE for an entry at
\* E or W; driveFromSector becomes the entry sector facing the old
\* driveToSector, and driveToSector the exit of the connection used from it.
C6_ConnectionResolution ==
    [][\A i \in TrainIds :
          (ReachesOne(trains[i]) /\ NextTileFits(trains[i])) =>
              LET used == ResolvedConnection(NextTileInfo(trains[i]), NeededEntry(trains[i]))
              IN /\ trains'[i].tileConnectionUsed = used
                 /\ trains'[i].driveFromSector = NeededEntry(trains[i])
                 /\ trains'[i].driveToSector =
                       TileSectorGetExitFromEntryAndConnectionDirection(
                           used, trains'[i].driveFromSector)]_vars

\* A train drives East-West over a crossing, a tile with two active
\* connections.
C6_Witness ==
    \E i \in TrainIds :
        /\ trains[i].state = TRAIN_STATE_DRIVING
        /\ InGrid(trains[i].tileCurrent)
        /\ Cardinality(ActiveConnections(
               mapTiles[TileIndexByTileCoords(trains[i].tileCurrent.x,
                                              trains[i].tileCurrent.z)])) = 2
        /\ trains[i].tileConnectionUsed = CONNECTION_EW_WE
        /\ trains[i].driveFromSector = TILE_SECTOR_W
        /\ trains[i].driveToSector = TILE_SECTOR_E

\* ---- C8 (SpecTick)
\* C8: on an unpaused tick a Blocked train (its tileNext a tile of the array)
\* becomes Driving exactly when tileNext has type Rails, whatever its
\* connections, and no other field of the train changes.
C8_BlockedResumesOnRails ==
    [][\A i \in TrainIds :
          (/\ ~g_debugSimPauseOn
           /\ trains[i].state = TRAIN_STATE_BLOCKED
           /\ ReadsInsideArray(trains[i])) =>
              trains'[i] = IF NextTileInfo(trains[i]).type = TILE_TYPE_RAILS
                           THEN [trains[i] EXCEPT !.state = TRAIN_STATE_DRIVING]
                           ELSE trains[i]]_vars

\* A train is Driving again with its progress still at 1.0 or beyond, before a
\* Rails tile that has no connection for the entry sector it needs.
C8_Witness ==
    \E i \in TrainIds :
        /\ trains[i].state = TRAIN_STATE_DRIVING
        /\ trains[i].pathProgressNormalized >= ProgressUnit
        /\ ReadsInsideArray(trains[i])
        /\ NextTileInfo(trains[i]).type = TILE_TYPE_RAILS
        /\ ~TileInfoHasConnectionForEntry(NextTileInfo(trains[i]), NeededEntry(trains[i]))

\* ---- C10 (SpecLoop)
\* What the loop claims compare of a train.
RouteTuple(train) ==
    << train.tileCurrent, train.driveFromSector, train.driveToSector,
       train.tileConnectionUsed >>

\* C10: from reset, with no edit and no pause, train 0 has its starting
\* (tileCurrent, driveFromSector, driveToSector, tileConnectionUsed) again once
\* it was given exactly 6.0 units of progress.
C10_SixUnitsReturnToStart ==
    lastFrame.travelled = 6 * ProgressUnit =>
        RouteTuple(trains[0]) = RouteTuple(StartingTrain)

\* C10, amended: the seeded loop has eight tiles, and the train has its
\* starting tuple again once it was given exactly 8.0 units of progress, when no
\* tick carried its progress to 2.0 or beyond.
C10_EightUnitsReturnToStart ==
    (lastFrame.travelled = 8 * ProgressUnit /\ ~lastFrame.dropped) =>
        RouteTuple(trains[0]) = RouteTuple(StartingTrain)

\* The train was given 8.0 units without a dropped tile, and is Driving.
C10_Witness ==
    /\ lastFrame.travelled = 8 * ProgressUnit
    /\ ~lastFrame.dropped
    /\ trains[0].state = TRAIN_STATE_DRIVING
    /\ trains[0].pathProgressNormalized = StartingTrain.pathProgressNormalized

\* ---- C11 (SpecTiles)
\* The tile at coords.
TileAt(tiles, at) == tiles[TileIndexByTileCoords(at.x, at.z)]

\* The connection kinds set in a ConnectionsConfig.
ConnectionsIn(flags) == { c \in ConnectionDirections : BitAnd(flags, c) # 0 }

\* The step is a TileAddRailConnection call.
AddConnectionCall == lastFrame'.op = "TileAddRailConnection"

\* C11: TileAddRailConnection with a connection d on a tile with no connection
\* leaves the tile with exactly d in connectionOptions, exactly d in
\* connectionsActive, and the type Rails.
C11_FirstConnectionIsActive ==
    [][(AddConnectionCall /\ OptionsAt(mapTiles, lastFrame'.at) = 0) =>
          LET tile == TileAt(mapTiles', lastFrame'.at)
          IN /\ tile.connectionOptions = lastFrame'.connection
             /\ tile.connectionsActive = lastFrame'.connection
             /\ tile.type = TILE_TYPE_RAILS]_vars

\* A curve was just added to the edited tile, which the bulldozer had emptied.
C11_Witness ==
    /\ lastFrame.op = "TileAddRailConnection"
    /\ lastFrame.optionsBefore = 0
    /\ lastFrame.connection = CONNECTION_NW_WN
    /\ TileAt(mapTiles, lastFrame.at).connectionsActive = CONNECTION_NW_WN

\* ---- C12 (SpecTiles)
Crossing == {CONNECTION_NS_SN, CONNECTION_EW_WE}

\* C12: when a tile with exactly one connection receives another one, the two
\* are both active afterwards if they are NS/SN and EW/WE, and connectionsActive
\* stays the first connection otherwise.
C12_SecondConnection ==
    [][(/\ AddConnectionCall
        /\ Cardinality(ConnectionsIn(OptionsAt(mapTiles, lastFrame'.at))) = 1
        /\ lastFrame'.connection \notin ConnectionsIn(OptionsAt(mapTiles, lastFrame'.at))) =>
          LET first == OptionsAt(mapTiles, lastFrame'.at)
              tile == TileAt(mapTiles', lastFrame'.at)
          IN /\ ConnectionsIn(tile.connectionOptions) = {first, lastFrame'.connection}
             /\ ConnectionsIn(tile.connectionsActive) =
                   IF {first, lastFrame'.connection} = Crossing THEN Crossing ELSE {first}
             /\ TileAt(mapTiles, lastFrame'.at).connectionsActive = first]_vars

\* EW/WE was just added to a tile that held NS/SN alone, and both are active.
C12_Witness ==
    /\ lastFrame.op = "TileAddRailConnection"
    /\ lastFrame.optionsBefore = CONNECTION_NS_SN
    /\ lastFrame.connection = CONNECTION_EW_WE
    /\ ConnectionsIn(TileAt(mapTiles, lastFrame.at).connectionsActive) = Crossing

Endpoints(connection) ==
    CASE connection = CONNECTION_NS_SN -> {TILE_SECTOR_N, TILE_SECTOR_S}
      [] connection = CONNECTION_NE_EN -> {TILE_SECTOR_N, TILE_SECTOR_E}
      [] connection = CONNECTION_NW_WN -> {TILE_SECTOR_N, TILE_SECTOR_W}
      [] connection = CONNECTION_ES_SE -> {TILE_SECTOR_E, TILE_SECTOR_S}
      [] connection = CONNECTION_EW_WE -> {TILE_SECTOR_E, TILE_SECTOR_W}
      [] connection = CONNECTION_SW_WS -> {TILE_SECTOR_S, TILE_SECTOR_W}

\* C14: for each connection and each of the two sectors it links, the exit
\* sector for that entry is the other sector the connection links, and the exit
\* sector for that exit is the entry again.
C14_ExitIsOtherEndpoint ==
    (/\ lastFrame.op = "TileSectorGetExitFromEntryAndConnectionDirection"
     /\ lastFrame.entry \in Endpoints(lastFrame.connection)) =>
        /\ {lastFrame.entry, lastFrame.result} = Endpoints(lastFrame.connection)
        /\ lastFrame.back = lastFrame.entry

\* The exit of SW/WS entered from the West is the South, and back.
C14_Witness ==
    /\ lastFrame.op = "TileSectorGetExitFromEntryAndConnectionDirection"
    /\ lastFrame.connection = CONNECTION_SW_WS
    /\ lastFrame.entry = TILE_SECTOR_W
    /\ lastFrame.result = TILE_SECTOR_S
    /\ lastFrame.back = TILE_SECTOR_W

\* ---- C15 (SpecPure)
\* C15: for every value of connectionOptions and every sector,
\* TileHasConnectionForEntry holds exactly when the options contain a
\* connection that links the sector; it never holds for a corner sector or the
\* centre.
C15_EntryNeedsLinkingConnection ==
    lastFrame.op = "TileHasConnectionForEntry" =>
        (lastFrame.result <=>
            \E c \in ConnectionsIn(lastFrame.options) : lastFrame.entrySector \in Endpoints(c))

\* A tile with NE/EN and SW/WS can be entered from the East, and one with
\* NS/SN alone cannot.
C15_Witness ==
    /\ lastFrame.op = "TileHasConnectionForEntry"
    /\ lastFrame.entrySector = TILE_SECTOR_E
    /\ \/ lastFrame.options = CONNECTION_NE_EN + CONNECTION_SW_WS /\ lastFrame.result
       \/ lastFrame.options = CONNECTION_NS_SN /\ ~lastFrame.result

\* ---- C16 (SpecPaint)
\* The step is a SectorTrailPaintAt call on a trail that is not empty.
PaintAtOnTrail ==
    /\ lastFrame'.op = "SectorTrailPaintAt"
    /\ brushSectorTrailLength > 0

\* The last sample of the trail before the step is on the tile painted at.
PaintAtSameTile ==
    brushSectorTrail[brushSectorTrailLength].coords = lastFrame'.coords

\* C16: SectorTrailPaintAt(coords, sector) on a trail whose last sample is on
\* the tile coords leaves the trail as it is when that sample has the sector,
\* and otherwise appends (coords, sector) after the samples the trail had; the
\* tiles are unchanged in both cases.
C16_SameTileAppendsOrIgnores ==
    [][(PaintAtOnTrail /\ PaintAtSameTile) =>
          /\ brushSectorTrail' =
                IF brushSectorTrail[brushSectorTrailLength].sector = lastFrame'.sector
                THEN brushSectorTrail
                ELSE brushSectorTrail \o << [coords |-> lastFrame'.coords,
                                             sector |-> lastFrame'.sector] >>
          /\ mapTiles' = mapTiles]_vars

\* The trail N, CENTER of the empty tile, painted at its centre again and
\* unchanged.
C16_Witness ==
    /\ lastFrame.op = "SectorTrailPaintAt"
    /\ lastFrame.coords = Seed(31, 30)
    /\ lastFrame.sector = TILE_SECTOR_CENTER
    /\ brushSectorTrail = << [coords |-> Seed(31, 30), sector |-> TILE_SECTOR_N],
                             [coords |-> Seed(31, 30), sector |-> TILE_SECTOR_CENTER] >>

\* ---- C17 (SpecPaint)
\* C17: SectorTrailPaintAt(coords, sector) on a trail whose last sample is on
\* another tile leaves the trail with the one sample (coords, sector), and the
\* tiles as the bake of the old trail leaves them: no tile but the one of the
\* old trail changes, and that tile holds NS/SN when the old trail was
\* N, CENTER, S.
C17_OtherTileBakesThenRestarts ==
    [][(PaintAtOnTrail /\ ~PaintAtSameTile) =>
          LET previous == brushSectorTrail[1].coords
          IN /\ brushSectorTrail' = << [coords |-> lastFrame'.coords,
                                        sector |-> lastFrame'.sector] >>
             /\ mapTiles' = SectorTrailBakeConnection(mapTiles, brushSectorTrail)
             /\ \A i \in DOMAIN mapTiles :
                   i # TileIndexByTileCoords(previous.x, previous.z)
                      => mapTiles'[i] = mapTiles[i]
             /\ (/\ brushSectorTrailLength = 3
                 /\ brushSectorTrail[1].sector = TILE_SECTOR_N
                 /\ brushSectorTrail[3].sector = TILE_SECTOR_S)
                   => CONNECTION_NS_SN \in ConnectionsIn(OptionsAt(mapTiles', previous))]_vars

\* The cursor has just left the empty tile, which now holds the one connection
\* of the trail painted on it, and the trail has the sample of the tile the
\* cursor is on.
C17_Witness ==
    /\ lastFrame.op = "SectorTrailPaintAt"
    /\ lastFrame.coords = Seed(30, 30)
    /\ brushSectorTrail = << [coords |-> Seed(30, 30), sector |-> lastFrame.sector] >>
    /\ OptionsAt(mapTiles, Seed(31, 30)) = CONNECTION_NS_SN
    /\ OptionsAt(mapTiles, Seed(30, 30)) = OptionsAt(ResetTiles, Seed(30, 30))

\* ---- C18 (SpecBake)
\* The step is a bake of a trail of three samples.
BakeOfThree ==
    /\ lastFrame'.op = "SectorTrailBakeConnection"
    /\ lastFrame'.length = 3

\* The connections whose two sectors are the first and the last of the trail.
LinkedByTrail ==
    { d \in ConnectionDirections : Endpoints(d) = {lastFrame'.first, lastFrame'.last} }

\* The tiles other than the one of the trail are as before the step.
OtherTilesUnchanged ==
    \A i \in DOMAIN mapTiles :
        i # TileIndexByTileCoords(lastFrame'.at.x, lastFrame'.at.z)
            => mapTiles'[i] = mapTiles[i]

\* C18: a bake of a three-sample trail whose first and last sectors are the two
\* sectors a connection d links, in either order, leaves the trail's tile with
\* the connectionOptions it had and d, and every other tile as it was.
C18_BakeSetsLinkedConnection ==
    [][\A d \in ConnectionDirections :
          (BakeOfThree /\ d \in LinkedByTrail) =>
              /\ ConnectionsIn(OptionsAt(mapTiles', lastFrame'.at))
                    = ConnectionsIn(OptionsAt(mapTiles, lastFrame'.at)) \cup {d}
              /\ OtherTilesUnchanged]_vars

\* A trail from the West to the North was baked on the tile, which had the one
\* connection ES/SE and now has NW/WN too.
C18_Witness ==
    /\ lastFrame.op = "SectorTrailBakeConnection"
    /\ lastFrame.length = 3
    /\ lastFrame.first = TILE_SECTOR_W
    /\ lastFrame.last = TILE_SECTOR_N
    /\ lastFrame.optionsBefore = CONNECTION_ES_SE
    /\ OptionsAt(mapTiles, lastFrame.at) = CONNECTION_ES_SE + CONNECTION_NW_WN

\* ---- C19 (SpecBake)
\* C19: a bake of a trail of 0, 1, 2, 4 or more samples leaves the
\* connectionOptions, the connectionsActive and the type of every tile as they
\* were.
C19_OtherLengthsChangeNoConnection ==
    [][(lastFrame'.op = "SectorTrailBakeConnection" /\ lastFrame'.length # 3) =>
          \A i \in DOMAIN mapTiles :
              /\ mapTiles'[i].connectionOptions = mapTiles[i].connectionOptions
              /\ mapTiles'[i].connectionsActive = mapTiles[i].connectionsActive
              /\ mapTiles'[i].type = mapTiles[i].type]_vars

\* A trail of four samples from the North to the South was baked on the tile,
\* which had EW/WE alone and has no more.
C19_Witness ==
    /\ lastFrame.op = "SectorTrailBakeConnection"
    /\ lastFrame.length = 4
    /\ lastFrame.first = TILE_SECTOR_N
    /\ lastFrame.last = TILE_SECTOR_S
    /\ lastFrame.optionsBefore = CONNECTION_EW_WE
    /\ OptionsAt(mapTiles, lastFrame.at) = CONNECTION_EW_WE

\* ---- C20 (SpecBake)
\* The (tile, connection) pairs the step adds to connectionOptions.
AddedConnections ==
    UNION { { << i, c >> : c \in ConnectionsIn(mapTiles'[i].connectionOptions)
                                 \ ConnectionsIn(mapTiles[i].connectionOptions) } :
            i \in { j \in DOMAIN mapTiles :
                      mapTiles'[j].connectionOptions # mapTiles[j].connectionOptions } }

\* C20: a bake of a three-sample trail adds a connection only when its first
\* and last sectors are the two sectors a connection links, in either order;
\* and no bake adds more than one connection.
C20_OnlyEdgePairsAdd ==
    [][BakeOfThree =>
          /\ (AddedConnections # {} => LinkedByTrail # {})
          /\ Cardinality(AddedConnections) <= 1]_vars

\* The (first, last) pairs of corner sectors that select a connection, in this
\* order only.
CornerPairs ==
    { <<TILE_SECTOR_SW, TILE_SECTOR_NW>>, <<TILE_SECTOR_NE, TILE_SECTOR_SE>>,
      <<TILE_SECTOR_SE, TILE_SECTOR_SW>>, <<TILE_SECTOR_NE, TILE_SECTOR_NW>> }

\* C20, amended: a bake of a three-sample trail adds a connection only when
\* its first and last sectors are the two sectors a connection links, in either
\* order, or are one of the four corner pairs (SW, NW), (NE, SE), which add
\* NS/SN, and (SE, SW), (NE, NW), which add EW/WE; no bake adds more than one
\* connection.
C20_OnlyEdgeAndCornerPairsAdd ==
    [][BakeOfThree =>
          /\ AddedConnections # {} =>
                \/ LinkedByTrail # {}
                \/ /\ << lastFrame'.first, lastFrame'.last >> \in CornerPairs
                   /\ \A added \in AddedConnections :
                         added[2] = IF << lastFrame'.first, lastFrame'.last >>
                                          \in { <<TILE_SECTOR_SE, TILE_SECTOR_SW>>,
                                                <<TILE_SECTOR_NE, TILE_SECTOR_NW>> }
                                    THEN CONNECTION_EW_WE
                                    ELSE CONNECTION_NS_SN
          /\ Cardinality(AddedConnections) <= 1]_vars

\* A trail from the South-West corner to the North-West corner was baked on
\* the tile, which the bulldozer had emptied and which now has NS/SN.
C20_Witness ==
    /\ lastFrame.op = "SectorTrailBakeConnection"
    /\ lastFrame.length = 3
    /\ lastFrame.first = TILE_SECTOR_SW
    /\ lastFrame.last = TILE_SECTOR_NW
    /\ lastFrame.optionsBefore = 0
    /\ OptionsAt(mapTiles, lastFrame.at) = CONNECTION_NS_SN

\* ---- C21 (SpecPaint)
\* The tiles that hold one or two connections.
OneOrTwoConnections ==
    { i \in DOMAIN mapTiles :
        TileHConnectionsCount(mapTiles[i].connectionOptions) \in {1, 2} }

\* C21: two tiles that hold the same one or two connections have the same
\* modelID and the same modelRotationInDegree, whatever the order in which the
\* connections were added, and the rotation is one of 0, 90, 180, 270.
C21_ModelFollowsOptions ==
    \A i, j \in OneOrTwoConnections :
        /\ mapTiles[i].modelRotationInDegree \in {0, 90, 180, 270}
        /\ mapTiles[i].connectionOptions = mapTiles[j].connectionOptions =>
              /\ mapTiles[i].modelID = mapTiles[j].modelID
              /\ mapTiles[i].modelRotationInDegree = mapTiles[j].modelRotationInDegree

\* ---- C22 (SpecTiles)
\* C22: a bulldozer press on a Rails tile that no train vetoes leaves the tile
\* with no connectionOptions, no connectionsActive, the rotation 0 and the type
\* Empty; a press on a tile that is not Rails changes no tile; and no press
\* changes a tile other than the one pressed on.
C22_BulldozerClearsTile ==
    [][lastFrame'.op = "TickBulldozer" =>
          LET at == lastFrame'.at
              tile == TileAt(mapTiles, at)
              cleared == TileAt(mapTiles', at)
          IN /\ (tile.type = TILE_TYPE_RAILS /\ ~BulldozerVeto(trains, at)) =>
                   /\ cleared.connectionOptions = 0
                   /\ cleared.connectionsActive = 0
                   /\ cleared.modelRotationInDegree = 0
                   /\ cleared.type = TILE_TYPE_EMPTY
             /\ tile.type # TILE_TYPE_RAILS => mapTiles' = mapTiles
             /\ \A i \in DOMAIN mapTiles :
                   i # TileIndexByTileCoords(at.x, at.z) => mapTiles'[i] = mapTiles[i]]_vars

\* The bulldozer was pressed on the edited tile when it held EW/WE alone, with
\* the rotation 90, and the tile is Empty with nothing left.
C22_Witness ==
    /\ lastFrame.op = "TickBulldozer"
    /\ lastFrame.at = Seed(30, 31)
    /\ lastFrame.optionsBefore = CONNECTION_EW_WE
    /\ TileAt(mapTiles, lastFrame.at) = TileZero

\* ---- C23 (SpecStroke)
\* C23: brushSectorTrailLength never exceeds the number of entries of
\* brushSectorTrail, whatever SectorTrailPaintAt calls a gesture makes.
C23_TrailWithinArray == brushSectorTrailLength <= g_TileCount

\* ---- C24 (SpecStroke)
\* C24: after a frame in which the button is released in ACTION_MODE_BUILD_RAILS
\* the brush trail is empty, the ray on the map or not.
C24_ReleaseEmptiesTrail ==
    lastFrame.op = "released" => brushSectorTrail = <<>>

\* ---- C25 (Spec)
\* C25: in every state reachable from reset the state of every train is
\* Disabled, Blocked or Driving, and every train but train 0 is Disabled.
C25_TrainStatesProduced ==
    \A i \in TrainIds :
        /\ trains[i].state \in
              {TRAIN_STATE_DISABLED, TRAIN_STATE_BLOCKED, TRAIN_STATE_DRIVING}
        /\ i # 0 => trains[i].state = TRAIN_STATE_DISABLED

\* Train 0 has been blocked at the end of its tile, with progress for one tile
\* or more, and the other trains are Disabled.
C25_Witness ==
    /\ trains[0].state = TRAIN_STATE_BLOCKED
    /\ trains[0].pathProgressNormalized >= ProgressUnit
    /\ \A i \in TrainIds \ {0} : trains[i].state = TRAIN_STATE_DISABLED

\* ---- C26 (Spec)
\* C26: a frame changes no tile but the one under the cursor, and this one as
\* the tool of the frame does: the bulldozer empties it, and a bake leaves it
\* Rails with the connectionOptions it had or more. The tiles the trains are
\* ticked over are as they were.
C26_OnlyToolsChangeTiles ==
    [][\A i \in DOMAIN mapTiles :
          mapTiles'[i] # mapTiles[i] =>
              /\ TileCoordsByIndex(i) \in CursorTiles
              /\ \/ /\ actionMode = ACTION_MODE_BUILD_BULLDOZER
                    /\ mapTiles'[i].type = TILE_TYPE_EMPTY
                    /\ mapTiles'[i].connectionOptions = 0
                 \/ /\ actionMode = ACTION_MODE_BUILD_RAILS
                    /\ mapTiles'[i].type = TILE_TYPE_RAILS
                    /\ ConnectionsIn(mapTiles[i].connectionOptions)
                          \subseteq ConnectionsIn(mapTiles'[i].connectionOptions)]_vars

\* Train 0 has been ticked from its first tile to another one, more than a step
\* from the cursor, and every tile is as reset left it.
C26_Witness ==
    /\ trains[0].state = TRAIN_STATE_DRIVING
    /\ trains[0].tileCurrent \notin { StartingTrain.tileCurrent } \cup CursorTiles
    /\ trains[0].tilePrevious \notin CursorTiles
    /\ mapTiles = ResetTiles

\* ---- C27 (SpecPure)
\* C27: a tick leaves a train that is neither Driving nor Blocked as it is,
\* advances the progress of no train that is not Driving, and changes the state
\* of no train that is neither Driving nor Blocked.
C27_OnlyDrivingAndBlockedTick ==
    lastFrame.op = "TickTrains" =>
        /\ lastFrame.train.state \notin {TRAIN_STATE_DRIVING, TRAIN_STATE_BLOCKED}
              => lastFrame.result = lastFrame.train
        /\ lastFrame.train.state # TRAIN_STATE_DRIVING
              => lastFrame.result.pathProgressNormalized
                    = lastFrame.train.pathProgressNormalized
        /\ lastFrame.result.state # lastFrame.train.state
              => lastFrame.train.state \in {TRAIN_STATE_DRIVING, TRAIN_STATE_BLOCKED}

\* A Hidden train was ticked nearly at the end of its tile, before a Rails
\* tile, and is as it was.
C27_Witness ==
    /\ lastFrame.op = "TickTrains"
    /\ lastFrame.train.state = TRAIN_STATE_HIDDEN
    /\ lastFrame.train.pathProgressNormalized = ProgressUnit - 1
    /\ lastFrame.train.tileNext = Seed(30, 31)
    /\ lastFrame.result = lastFrame.train

\* ---- C28 (SpecPure)
\* C28: TileHConnectionsCount(flags) is the number of connections set in flags,
\* for each of the 64 values of connectionOptions.
C28_CountIsNumberOfConnections ==
    lastFrame.op = "TileHConnectionsCount" =>
        lastFrame.result = Cardinality(ConnectionsIn(lastFrame.flags))

\* The count of the six connections together is 6.
C28_Witness ==
    /\ lastFrame.op = "TileHConnectionsCount"
    /\ lastFrame.flags = 2 * CONNECTION_SW_WS - 1
    /\ lastFrame.result = 6

\* ---- C29 (SpecPure)
\* The floor of a world coordinate, clamped into the grid.
FloorClamped(coordinate) ==
    LET floor == CHOOSE n \in -3..(g_MapGridSize + 2) :
                    n * PosScale <= coordinate /\ coordinate < (n + 1) * PosScale
    IN IF floor < 0 THEN 0
       ELSE IF floor > g_MapGridSize - 1 THEN g_MapGridSize - 1
       ELSE floor

\* C29: for every world point, on the map or off it on either side,
\* TileGetCoordsFromWorldPoint returns the floor of each coordinate clamped
\* into 0 .. g_MapGridSize - 1, which are coordinates of the grid.
C29_WorldPointClampedIntoGrid ==
    lastFrame.op = "TileGetCoordsFromWorldPoint" =>
        /\ lastFrame.result = Coords(FloorClamped(lastFrame.position[1]),
                                     FloorClamped(lastFrame.position[3]))
        /\ InGrid(lastFrame.result)

\* The point half a tile before the map on x and just beyond it on z is given
\* the corner tile (0, g_MapGridSize - 1).
C29_Witness ==
    /\ lastFrame.op = "TileGetCoordsFromWorldPoint"
    /\ lastFrame.position = << -PosScale \div 2, 0, g_MapGridSize * PosScale + 1 >>
    /\ lastFrame.result = Coords(0, g_MapGridSize - 1)

\* ---- C30 (SpecTick)
\* C30: whenever a train commits a hand-off, the tileConnectionUsed it records
\* is one of the connectionOptions of the tile it enters and has the new
\* driveFromSector as one of its two endpoints, whatever connections the tile
\* holds.
C30_UsedConnectionServesEntry ==
    [][\A i \in TrainIds :
          (ReachesOne(trains[i]) /\ NextTileFits(trains[i])) =>
              /\ TileHasConnectionFlag(NextTileInfo(trains[i]).connectionOptions,
                                       trains'[i].tileConnectionUsed)
              /\ trains'[i].driveFromSector \in Endpoints(trains'[i].tileConnectionUsed)]_vars

\* ---- C31 (SpecTiles)
\* C31: a bulldozer press on a Rails tile leaves the tile unchanged exactly
\* when the tileCurrent of some Driving train is that tile: the tile under a
\* Driving train is never cleared, and a tile with no train on it is never
\* protected.
C31_VetoExactlyUnderTrain ==
    [][(lastFrame'.op = "TickBulldozer"
        /\ TileAt(mapTiles, lastFrame'.at).type = TILE_TYPE_RAILS) =>
          (TileAt(mapTiles', lastFrame'.at) = TileAt(mapTiles, lastFrame'.at)
             <=> \E i \in TrainIds :
                    /\ trains[i].state = TRAIN_STATE_DRIVING
                    /\ trains[i].tileCurrent = lastFrame'.at)]_vars

\* ---- C32 (SpecTick)
\* C32: while the tile grid is not edited, a train that is Blocked is Blocked
\* after every later tick, with the pathProgressNormalized it had: its state
\* does not go back to Driving and its progress does not grow.
C32_BlockedStaysBlocked ==
    [][\A i \in TrainIds :
          (trains[i].state = TRAIN_STATE_BLOCKED /\ mapTiles' = mapTiles) =>
              /\ trains'[i].state = TRAIN_STATE_BLOCKED
              /\ trains'[i].pathProgressNormalized = trains[i].pathProgressNormalized]_vars

\* ---- C33 (SpecResume)
\* C33: a train that is Blocked while its tileNext is a Rails tile with a
\* connection for the entry sector facing its driveToSector is, after two
\* unpaused ticks with no edit between, Driving on the tile that was its
\* tileNext.
C33_FittingTileResumesInTwoTicks ==
    \A i \in TrainIds :
        LET waiting == lastFrame.waiting[i]
        IN (/\ lastFrame.ticks = 2
            /\ waiting.state = TRAIN_STATE_BLOCKED
            /\ ReadsInsideArray(waiting)
            /\ NextTileFits(waiting)) =>
               /\ trains[i].state = TRAIN_STATE_DRIVING
               /\ trains[i].tileCurrent = waiting.tileNext

\* Train 0 waited before a tile of the loop that a session gave a fitting
\* connection, and two ticks later drives on that tile.
C33_Witness ==
    /\ lastFrame.ticks = 2
    /\ lastFrame.waiting[0].state = TRAIN_STATE_BLOCKED
    /\ NextTileFits(lastFrame.waiting[0])
    /\ trains[0].state = TRAIN_STATE_DRIVING
    /\ trains[0].tileCurrent = lastFrame.waiting[0].tileNext
    /\ trains[0].tileCurrent # lastFrame.waiting[0].tileCurrent

\* ---- C34 (SpecLoop)
\* C34: from the seeded reset state, with no paint and no bulldozer edit, train
\* 0 is never Blocked: in every state it is Driving and its tileCurrent is a
\* Rails tile of the seeded loop.
C34_LoopTrainKeepsDriving ==
    /\ trains[0].state = TRAIN_STATE_DRIVING
    /\ trains[0].tileCurrent \in LoopTiles
    /\ TileAt(mapTiles, trains[0].tileCurrent).type = TILE_TYPE_RAILS

\* The train has gone round the loop and drives on the tile before its
\* starting tile, the one holding NE/EN and EW/WE.
C34_Witness ==
    /\ lastFrame.travelled > 7 * ProgressUnit
    /\ trains[0].state = TRAIN_STATE_DRIVING
    /\ trains[0].tileCurrent = Seed(30, 29)
    /\ ConnectionsIn(TileAt(mapTiles, trains[0].tileCurrent).connectionOptions)
          = {CONNECTION_NE_EN, CONNECTION_EW_WE}

\* ---- C35 (SpecLoopFair)
\* C35: from the seeded reset state, with no edit and no pause, when frames
\* keep coming train 0 has its starting (tileCurrent, driveFromSector,
\* driveToSector, tileConnectionUsed) again and again for ever, comes again and
\* again onto the tile (30,29) that holds EW/WE besides NE/EN, and is never off
\* the tiles of the loop.
C35_LoopTrainReturnsForEver ==
    /\ []<>(RouteTuple(trains[0]) = RouteTuple(StartingTrain))
    /\ []<>(trains[0].tileCurrent = Seed(30, 29))
    /\ [](trains[0].tileCurrent \in LoopTiles)

\* The train has been on the tile (30,29) and has its starting tuple again.
C35_Witness ==
    /\ lastFrame.passed
    /\ RouteTuple(trains[0]) = RouteTuple(StartingTrain)
    /\ trains[0].state = TRAIN_STATE_DRIVING

\* ---- C36 (SpecTick)
\* C36: for every train that is Driving or Blocked, driveFromSector and
\* driveToSector are two distinct sectors among N, S, E and W, and
\* driveToSector is an endpoint of tileConnectionUsed.
C36_DriveSectorsAreDistinctEdges ==
    \A i \in TrainIds :
        trains[i].state \in {TRAIN_STATE_DRIVING, TRAIN_STATE_BLOCKED} =>
            /\ trains[i].driveFromSector \in EdgeSectors
            /\ trains[i].driveToSector \in EdgeSectors
            /\ trains[i].driveFromSector # trains[i].driveToSector
            /\ trains[i].tileConnectionUsed \in ConnectionDirections
            /\ trains[i].driveToSector \in Endpoints(trains[i].tileConnectionUsed)

\* A train drives on a tile with two connections over the active one, which
\* does not touch the sector it entered at.
C36_Witness ==
    \E i \in TrainIds :
        /\ trains[i].state = TRAIN_STATE_DRIVING
        /\ InGrid(trains[i].tileCurrent)
        /\ Cardinality(ConnectionsIn(
               TileAt(mapTiles, trains[i].tileCurrent).connectionOptions)) = 2
        /\ trains[i].tileConnectionUsed =
               TileAt(mapTiles, trains[i].tileCurrent).connectionsActive
        /\ trains[i].driveFromSector \notin Endpoints(trains[i].tileConnectionUsed)
        /\ trains[i].driveToSector \in Endpoints(trains[i].tileConnectionUsed)

\* ---- C37 (SpecTiles)
\* C37: a tile has the type Rails exactly when its connectionOptions are not
\* 0, after any TileAddRailConnection calls, bakes (those that match no
\* connection included) and bulldozer presses.
C37_RailsExactlyWithOptions ==
    \A i \in DOMAIN mapTiles :
        mapTiles[i].type = TILE_TYPE_RAILS <=> mapTiles[i].connectionOptions # 0

\* A trail that matches no connection was baked on the edited tile after the
\* bulldozer cleared it, and the tile is Empty with no connection.
C37_Witness ==
    /\ lastFrame.op = "SectorTrailBakeConnection"
    /\ lastFrame.connection = 0
    /\ TileAt(mapTiles, lastFrame.at).type = TILE_TYPE_EMPTY
    /\ TileAt(mapTiles, lastFrame.at).connectionOptions = 0
    /\ TileAt(ResetTiles, lastFrame.at).type = TILE_TYPE_RAILS

\* ---- C38 (SpecTick)
\* The crossing pair as a ConnectionsConfig.
CrossingPair == CONNECTION_NS_SN + CONNECTION_EW_WE

\* C38: every Rails tile has one or two active connections, and two exactly
\* when connectionsActive is the pair of NS/SN and EW/WE; so a hand-off that
\* finds an active count other than 1 on the tile it enters finds that pair.
C38_ActiveIsOneOrTheCrossing ==
    /\ [](\A i \in DOMAIN mapTiles :
            mapTiles[i].type = TILE_TYPE_RAILS =>
                /\ Cardinality(ActiveConnections(mapTiles[i])) \in {1, 2}
                /\ Cardinality(ActiveConnections(mapTiles[i])) = 2
                      <=> mapTiles[i].connectionsActive = CrossingPair)
    /\ [][\A i \in TrainIds :
            (/\ ReachesOne(trains[i])
             /\ NextTileFits(trains[i])
             /\ TileHConnectionsCount(NextTileInfo(trains[i]).connectionsActive) # 1) =>
                NextTileInfo(trains[i]).connectionsActive = CrossingPair]_vars

\* A train drives North-South over a crossing laid in the loop, whose two
\* connections are both active.
C38_Witness ==
    \E i \in TrainIds :
        /\ trains[i].state = TRAIN_STATE_DRIVING
        /\ InGrid(trains[i].tileCurrent)
        /\ TileAt(mapTiles, trains[i].tileCurrent).connectionsActive = CrossingPair
        /\ trains[i].tileConnectionUsed = CONNECTION_NS_SN
        /\ trains[i].tilePrevious # trains[i].tileCurrent
        /\ trains[i].tileCurrent # StartingTrain.tileCurrent

\* ---- C39 (SpecPaint)
\* C39: all samples in the brush trail are on one tile, the one a bake applies
\* to, and no two successive samples have the same sector.
C39_TrailOnOneTile ==
    /\ \A k \in 1..Len(brushSectorTrail) :
          brushSectorTrail[k].coords = brushSectorTrail[1].coords
    /\ \A k \in 1..(Len(brushSectorTrail) - 1) :
          brushSectorTrail[k].sector # brushSectorTrail[k + 1].sector

\* The gesture moved from the loop tile, where leaving baked a connection, to
\* its empty neighbour and has three samples there.
C39_Witness ==
    /\ Len(brushSectorTrail) = 3
    /\ brushSectorTrail[1].coords = Seed(31, 30)
    /\ OptionsAt(mapTiles, Seed(30, 30)) # OptionsAt(ResetTiles, Seed(30, 30))
    /\ OptionsAt(mapTiles, Seed(31, 30)) = 0

\* ---- C40 (SpecTick)
\* Two world positions have the same x and z.
SameGroundPoint(a, b) == a[1] = b[1] /\ a[3] = b[3]

\* C40: on every committed hand-off whose neighbor step was not suppressed (the
\* train's tileNext was another tile than its tileCurrent), the edge position
\* of the old tileCurrent at the old driveToSector and the edge position of the
\* new tileCurrent at the new driveFromSector have the same x and z.
C40_HandOffIsContinuous ==
    [][\A i \in TrainIds :
          (/\ ReachesOne(trains[i])
           /\ NextTileFits(trains[i])
           /\ trains[i].tileNext # trains[i].tileCurrent) =>
              SameGroundPoint(
                  TileSectorGetEdgePosition(trains[i].tileCurrent, trains[i].driveToSector),
                  TileSectorGetEdgePosition(trains'[i].tileCurrent,
                                            trains'[i].driveFromSector))]_vars

\* A train has entered a tile at its W edge from the tile beside it, and the E
\* edge of that tile is the same ground point.
C40_Witness ==
    \E i \in TrainIds :
        /\ trains[i].state = TRAIN_STATE_DRIVING
        /\ trains[i].driveFromSector = TILE_SECTOR_W
        /\ trains[i].tilePrevious # trains[i].tileCurrent
        /\ trains[i].tilePrevious # StartingTrain.tilePrevious
        /\ trains[i].tileCurrent =
               TileGetNextFromExitSector(trains[i].tilePrevious, TILE_SECTOR_E)
        /\ SameGroundPoint(
               TileSectorGetEdgePosition(trains[i].tilePrevious, TILE_SECTOR_E),
               TileSectorGetEdgePosition(trains[i].tileCurrent, TILE_SECTOR_W))

====
